---- MODULE Spec2Model ----
(***************************************************************************)
(* Turn orchestration of the CRM sales agent (app/agent/workflow.py):      *)
(* classify -> prepare_plan -> router -> (resolve_lead) -> handler ->      *)
(* update_context -> (execute_pending -> router ...) -> respond_final.     *)
(*                                                                         *)
(* Text values (slot values, message texts, lead names) are sequences of   *)
(* tokens; a Python dict is a sequence of <<key, value>> pairs with unique  *)
(* keys, in insertion order.  The absent value (None) and the empty string *)
(* are both the empty sequence; key presence is tracked separately.        *)
(***************************************************************************)
EXTENDS Integers, Sequences, FiniteSets, TLC

VARIABLES
    pc,            \* the graph node that runs next ("end" between turns)
    turn,          \* number of the current turn of the conversation
    messages,      \* AgentState.messages (append-only history)
    intent,        \* AgentState.intent
    slots,         \* AgentState.slots (dict)
    lead_atual,    \* AgentState.lead_atual
    errors,        \* AgentState.errors
    context,       \* AgentState.context
    leads,         \* record store: table public.leads, in creation order
    notes,         \* record store: table public.notas_lead
    tasks,         \* record store: table public.tarefas_lead
    proposals,     \* record store: table public.propostas
    dispatched,    \* history: actions handed to a handler in this turn
    resolve_runs,  \* history: executions of resolve_lead in this turn
    replan_calls,  \* history: planner calls made by update_context in this turn
    planned,       \* history: length of the queue as prepare_plan left it in this turn
    replan_added,  \* history: actions the re-plan added to the queue in this turn
    replan_plan    \* history: the planner's answer to the re-plan of this turn

vars == <<pc, turn, messages, intent, slots, lead_atual, errors, context,
          leads, notes, tasks, proposals, dispatched, resolve_runs, replan_calls,
          planned, replan_added, replan_plan>>

state == <<messages, intent, slots, lead_atual, errors, context>>
store == <<leads, notes, tasks, proposals>>
plan_history == <<planned, replan_added, replan_plan>>
history == <<dispatched, resolve_runs, replan_calls, planned, replan_added, replan_plan>>

-----------------------------------------------------------------------------
(* Bounds of the exploration *)

MaxTurns == 2
MaxPlan == 2
MaxReplan == 1

\* Longest message text, in tokens, of the reference-extraction exploration.
MaxText == 3

\* Most entries of the actions list in a planner reply.
MaxItems == 2

-----------------------------------------------------------------------------
(* Intent tables *)

LEAD_INTENTS == {"lead_criar", "lead_obter", "lead_buscar", "lead_listar", "lead_atualizar"}

NOTE_INTENTS == {"nota_adicionar", "nota_listar"}

TASK_INTENTS == {"tarefa_criar", "tarefa_concluir", "tarefa_listar"}

PROPOSAL_INTENTS == {"proposta_rascunhar", "proposta_adicionar_item",
                     "proposta_calcular_totais", "proposta_listar",
                     "proposta_exportar", "proposta_atualizar_corpo"}

INTENTS_REQUIRING_LEAD == {"lead_obter", "lead_atualizar", "nota_adicionar", "nota_listar",
                           "tarefa_criar", "tarefa_listar", "proposta_rascunhar",
                           "proposta_listar"}

REQUIRED_SLOTS(i) ==
    CASE i = "lead_criar" -> <<"nome">>
      [] i = "lead_obter" -> <<"lead_ref_ou_id">>
      [] i = "lead_buscar" -> <<"consulta">>
      [] i = "lead_atualizar" -> <<"lead_ref_ou_id">>
      [] i = "nota_adicionar" -> <<"texto">>
      [] i = "tarefa_criar" -> <<"titulo">>
      [] i = "tarefa_concluir" -> <<"tarefa_id">>
      [] i = "proposta_rascunhar" -> <<"titulo">>
      [] i = "proposta_adicionar_item" -> <<"proposta_id", "descricao", "quantidade", "preco_unitario">>
      [] i = "proposta_calcular_totais" -> <<"proposta_id">>
      [] i = "proposta_exportar" -> <<"proposta_id", "formato">>
      [] i = "proposta_atualizar_corpo" -> <<"proposta_id", "corpo_md">>
      [] OTHER -> <<>>

-----------------------------------------------------------------------------
(* Tokens and text *)

\* Identifiers the record store hands out, in order of creation.
LeadIds == <<"L1", "L2", "L3", "L4", "L5", "L6", "L7", "L8">>

TaskIds == <<"T1", "T2", "T3", "T4", "T5", "T6", "T7", "T8", "T9", "T10", "T11", "T12">>

ProposalIds == <<"P1", "P2", "P3", "P4", "P5", "P6", "P7", "P8", "P9", "P10", "P11", "P12">>

ItemIds == <<"I1", "I2", "I3", "I4", "I5", "I6", "I7", "I8", "I9", "I10", "I11", "I12">>

Range(f) == {f[i] : i \in DOMAIN f}

UuidTokens == Range(LeadIds) \cup Range(TaskIds) \cup Range(ProposalIds)

EmailTokens == {"m@x", "z@z"}

PhoneTokens == {"5551234567"}

\* Number of decimal digits a token contributes to re.sub(r"\D+", "", s).
DigitCount(tok) ==
    IF tok \in PhoneTokens THEN 10
    ELSE IF tok \in UuidTokens THEN 20
    ELSE IF tok = "42" THEN 2
    ELSE 0

RECURSIVE SumDigits(_)
SumDigits(s) == IF s = <<>> THEN 0 ELSE DigitCount(Head(s)) + SumDigits(Tail(s))

normalize_phone(s) == SelectSeq(s, LAMBDA tok : DigitCount(tok) > 0)

is_uuid(s) == Len(s) = 1 /\ s[1] \in UuidTokens

HasAt(s) == \E i \in 1..Len(s) : s[i] \in EmailTokens

\* SQL "hay like %needle%": needle occurs as a contiguous run of hay.
Contains(hay, needle) ==
    \E off \in 0..(Len(hay) - Len(needle)) :
        \A j \in 1..Len(needle) : hay[off + j] = needle[j]

\* str(x) of a record-store identifier.
Str(id) == IF id = "" THEN <<>> ELSE <<id>>

Truthy(v) == v # <<>>

-----------------------------------------------------------------------------
(* Python dicts: sequences of <<key, value>> pairs, insertion ordered *)

DictHas(d, k) == \E i \in 1..Len(d) : d[i][1] = k

DictGet(d, k) ==
    IF DictHas(d, k) THEN d[CHOOSE i \in 1..Len(d) : d[i][1] = k][2] ELSE <<>>

DictPut(d, k, v) ==
    IF DictHas(d, k)
    THEN [i \in 1..Len(d) |-> IF d[i][1] = k THEN <<k, v>> ELSE d[i]]
    ELSE Append(d, <<k, v>>)

DictSetDefault(d, k, v) == IF DictHas(d, k) THEN d ELSE Append(d, <<k, v>>)

RECURSIVE DictFromPairs(_, _)
DictFromPairs(d, pairs) ==
    IF pairs = <<>> THEN d
    ELSE DictFromPairs(DictPut(d, Head(pairs)[1], Head(pairs)[2]), Tail(pairs))

\* Slot names in the order Python sorts them.
SlotNames == <<"consulta", "corpo_md", "descricao", "empresa", "formato", "lead_ref_ou_id",
               "moeda", "nome", "preco_unitario", "proposta_id", "quantidade", "tarefa_id",
               "texto", "tipo", "titulo">>

\* sorted(d.items()): the pairs of d in ascending key order.
SortedItems(d) ==
    LET present == SelectSeq(SlotNames, LAMBDA n : DictHas(d, n))
    IN  [i \in 1..Len(present) |-> <<present[i], DictGet(d, present[i])>>]

\* A key built from the items in insertion order, without sorted().
k_insertion_order(x) == <<x.intent, x.slots>>

\* The dedup key of an action: (intent, tuple(sorted(slots.items()))).
k(x) == <<x.intent, SortedItems(x.slots)>>

-----------------------------------------------------------------------------
(* Record store and tool operations (app/agent/tools.py) *)

NoLead == [lead_id |-> "", nome |-> <<>>, email |-> <<>>, empresa |-> <<>>]

InitialLeads ==
    << [id |-> "L1", nome |-> <<"Maria">>, email |-> <<"m@x">>, telefone |-> <<>>, empresa |-> <<"Acme">>],
       [id |-> "L2", nome |-> <<"Joao">>, email |-> <<>>, telefone |-> <<"5551234567">>, empresa |-> <<"Acme">>] >>

Reverse(s) == [i \in 1..Len(s) |-> s[Len(s) + 1 - i]]

Take(s, n) == IF Len(s) <= n THEN s ELSE SubSeq(s, 1, n)

Candidate(row) == [lead_id |-> row.id, nome |-> row.nome, email |-> row.email, empresa |-> row.empresa]

FirstId(rows) == IF rows = <<>> THEN "" ELSE rows[1].id

\* resolve_lead_id_by_ref: [lead_id, matches]; lead_id = "" stands for None.
resolve_lead_id_by_ref(db, ref) ==
    IF ~Truthy(ref) THEN [lead_id |-> "", matches |-> <<>>]
    ELSE IF is_uuid(ref)
    THEN [lead_id |-> FirstId(SelectSeq(db, LAMBDA r : r.id = ref[1])), matches |-> <<>>]
    ELSE IF HasAt(ref)
    THEN [lead_id |-> FirstId(SelectSeq(db, LAMBDA r : r.email = ref)), matches |-> <<>>]
    ELSE IF SumDigits(ref) >= 8
    THEN [lead_id |-> FirstId(SelectSeq(db, LAMBDA r : normalize_phone(r.telefone) = normalize_phone(ref))),
          matches |-> <<>>]
    ELSE LET rows == Take(SelectSeq(Reverse(db),
                                    LAMBDA r : Contains(r.nome, ref) \/ Contains(r.empresa, ref)), 5)
         IN  IF Len(rows) = 1
             THEN [lead_id |-> rows[1].id, matches |-> <<>>]
             ELSE [lead_id |-> "", matches |-> [i \in 1..Len(rows) |-> Candidate(rows[i])]]

RowOf(db, id) == SelectSeq(db, LAMBDA r : r.id = id)[1]

\* Tool envelopes: error = FALSE carries data, error = TRUE may carry matches.
Envelope(err, lead, ms) == [error |-> err, data |-> lead, matches |-> ms]

\* tools.get_lead
get_lead(db, ref) ==
    LET r == resolve_lead_id_by_ref(db, ref)
    IN  IF r.lead_id # "" THEN Envelope(FALSE, Candidate(RowOf(db, r.lead_id)), <<>>)
        ELSE Envelope(TRUE, NoLead, r.matches)

\* tools.resolve_lead
tool_resolve_lead(db, ref) ==
    LET r == resolve_lead_id_by_ref(db, ref)
    IN  IF r.lead_id # "" THEN Envelope(FALSE, [NoLead EXCEPT !.lead_id = r.lead_id], <<>>)
        ELSE Envelope(TRUE, NoLead, r.matches)

\* helpers.lead_context_from_result: NoLead stands for None.
lead_context_from_result(result) ==
    IF result.error THEN NoLead
    ELSE IF result.data.lead_id = "" THEN NoLead
    ELSE result.data

\* helpers.get_lead_context
get_lead_context(db, ref) ==
    IF ~Truthy(ref) THEN NoLead ELSE lead_context_from_result(get_lead(db, ref))

HasLead(l) == l.lead_id # ""

-----------------------------------------------------------------------------
(* Inputs: user messages with the classifier's reading, and planner outputs *)

Pair(n, v) == <<n, v>>

Act(i, s) == [intent |-> i, slots |-> s]

\* A user message and a ParserResponse the classifier may return for it.
TurnInputs ==
    { [text |-> <<"oi">>, intent |-> "conversa_geral", slots |-> <<>>],
      [text |-> <<"nota">>, intent |-> "nota_adicionar",
       slots |-> <<Pair("texto", <<"x">>)>>],
      [text |-> <<"nota">>, intent |-> "nota_adicionar",
       slots |-> <<Pair("texto", <<"x">>), Pair("empresa", <<"Acme">>)>>],
      [text |-> <<"nota", "Acme">>, intent |-> "nota_adicionar",
       slots |-> <<Pair("lead_ref_ou_id", <<"Acme">>), Pair("texto", <<"x">>)>>],
      [text |-> <<"criar">>, intent |-> "lead_criar",
       slots |-> <<Pair("nome", <<"Zed">>)>>],
      [text |-> <<"ver", "m@x">>, intent |-> "lead_obter",
       slots |-> <<Pair("lead_ref_ou_id", <<"Maria">>)>>],
      [text |-> <<"proposta">>, intent |-> "proposta_rascunhar",
       slots |-> <<Pair("titulo", <<"T">>)>>],
      [text |-> <<"buscar", "m@x">>, intent |-> "lead_buscar",
       slots |-> <<Pair("consulta", <<"Zed">>)>>],
      [text |-> <<"nota", "5551234567", "m@x">>, intent |-> "nota_adicionar",
       slots |-> <<Pair("texto", <<"x">>), Pair("lead_ref_ou_id", <<"Joao">>)>>],
      [text |-> <<"nota", "5551234567", "m@x">>, intent |-> "nota_adicionar",
       slots |-> <<Pair("texto", <<"x">>), Pair("nome", <<"Joao">>)>>],
      [text |-> <<"status">>, intent |-> "listar_status_lead", slots |-> <<>>],
      [text |-> <<"concluir">>, intent |-> "tarefa_concluir", slots |-> <<>>] }

\* The inputs of the multi-turn exploration.
FollowUpInputs ==
    { [text |-> <<"oi">>, intent |-> "conversa_geral", slots |-> <<>>],
      [text |-> <<"nota", "Acme">>, intent |-> "nota_adicionar",
       slots |-> <<Pair("lead_ref_ou_id", <<"Acme">>), Pair("texto", <<"x">>)>>],
      [text |-> <<"criar">>, intent |-> "lead_criar",
       slots |-> <<Pair("nome", <<"Zed">>)>>] }

UserTexts == {u.text : u \in TurnInputs}

\* Actions the planner may list; slots are the raw name/value entries.
PlanCatalogue ==
    { Act("lead_criar", <<Pair("nome", <<"Zed">>)>>),
      Act("nota_adicionar", <<Pair("texto", <<"x">>)>>),
      Act("nota_adicionar", <<Pair("texto", <<"x">>), Pair("lead_ref_ou_id", <<"L1">>)>>),
      Act("tarefa_criar", <<Pair("titulo", <<"T">>), Pair("tipo", <<"tarefa">>)>>) }

SeqsUpTo(S, n) == UNION {[1..m -> S] : m \in 0..n}

\* The plan of a compound request: create a lead, add a note, draft a proposal.
FullRequestPlan ==
    << Act("lead_criar", <<Pair("nome", <<"Zed">>)>>),
       Act("nota_adicionar", <<Pair("texto", <<"x">>)>>),
       Act("proposta_rascunhar", <<Pair("titulo", <<"T">>)>>) >>

\* The plan of a request to open a task and close it.
CloseTaskPlan ==
    << Act("tarefa_criar", <<Pair("titulo", <<"T">>), Pair("tipo", <<"tarefa">>)>>),
       Act("tarefa_concluir", <<>>) >>

\* The plan of a request that ends with the list of valid lead statuses.
StatusPlan == << Act("listar_status_lead", <<>>) >>

\* The plan of a request for a proposal in a stated currency.
CurrencyPlan ==
    << Act("proposta_rascunhar", <<Pair("titulo", <<"T">>), Pair("moeda", <<"USD">>)>>) >>

Plans == SeqsUpTo(PlanCatalogue, MaxPlan) \cup {FullRequestPlan, CloseTaskPlan, StatusPlan, CurrencyPlan}

Replans == SeqsUpTo(PlanCatalogue, MaxReplan) \cup {FullRequestPlan}

\* The planner outputs of the multi-turn exploration.
FollowUpPlans ==
    { <<>>,
      <<Act("tarefa_criar", <<Pair("titulo", <<"T">>), Pair("tipo", <<"tarefa">>)>>)>>,
      <<Act("tarefa_criar", <<Pair("tipo", <<"tarefa">>), Pair("titulo", <<"T">>)>>)>>,
      <<Act("tarefa_criar", <<Pair("titulo", <<"T">>), Pair("tipo", <<"tarefa">>)>>),
        Act("tarefa_criar", <<Pair("tipo", <<"tarefa">>), Pair("titulo", <<"T">>)>>)>> }

-----------------------------------------------------------------------------
(* Messages *)

NoData == [lead_id |-> "", proposta_id |-> "", item_id |-> ""]

HumanMessage(text) == [type |-> "human", text |-> text, name |-> "", data |-> NoData]

AIMessage(text) == [type |-> "ai", text |-> text, name |-> "", data |-> NoData]

\* A ToolMessage whose content parses to a dict with the given data.
ToolMessage(name, data) == [type |-> "tool", text |-> <<>>, name |-> name, data |-> data]

\* helpers.extract_text_content
extract_text_content(m) == m.text

\* The text of the most recent HumanMessage ("" when there is none).
LastHumanText(ms) ==
    LET idx == {i \in 1..Len(ms) : ms[i].type = "human"}
    IN  IF idx = {} THEN <<>>
        ELSE extract_text_content(ms[CHOOSE i \in idx : \A j \in idx : j <= i])

-----------------------------------------------------------------------------
(* Initial state: a compiled graph with an empty checkpoint *)

EmptyContext ==
    [pending_actions |-> <<>>, ai_responses |-> <<>>, router_blocked |-> FALSE,
     router_missing |-> <<>>, need_lead_resolution |-> FALSE,
     lead_resolution_attempted |-> FALSE, replanned |-> FALSE, matches |-> <<>>,
     planner_debug |-> <<>>, planner_error |-> FALSE]

Init ==
    /\ pc = "end"
    /\ turn = 0
    /\ messages = <<>>
    /\ intent = ""
    /\ slots = <<>>
    /\ lead_atual = NoLead
    /\ errors = <<>>
    /\ context = EmptyContext
    /\ leads = InitialLeads
    /\ notes = <<>>
    /\ tasks = <<>>
    /\ proposals = <<>>
    /\ dispatched = <<>>
    /\ resolve_runs = 0
    /\ replan_calls = 0
    /\ planned = 0
    /\ replan_added = 0
    /\ replan_plan = <<>>

\* compiled_graph.invoke({"messages": [HumanMessage]}) on the conversation's
\* thread: add_messages appends, every other channel keeps its checkpointed value.
start_turn(text, limit) ==
    /\ pc = "end"
    /\ turn < limit
    /\ turn' = turn + 1
    /\ messages' = Append(messages, HumanMessage(text))
    /\ pc' = "parse_and_classify"
    /\ dispatched' = <<>>
    /\ resolve_runs' = 0
    /\ replan_calls' = 0
    /\ planned' = 0
    /\ replan_added' = 0
    /\ replan_plan' = <<>>
    /\ UNCHANGED <<intent, slots, lead_atual, errors, context, store>>

\* parse_and_classify: parsed is the classifier's ParserResponse.
parse_and_classify(parsed) ==
    /\ pc = "parse_and_classify"
    /\ parsed.text = LastHumanText(messages)
    /\ intent' = parsed.intent
    /\ slots' = DictFromPairs(<<>>, parsed.slots)
    /\ pc' = "prepare_plan"
    /\ UNCHANGED <<turn, messages, lead_atual, errors, context, store, history>>

-----------------------------------------------------------------------------
(* The planner's reply and its parsing *)

\* A reply of the planner model is a sequence of tokens:
\*   "txt"  a word of prose                  "{" "}" "[" "]"  the brackets
\*   "KQ"   the key "actions":  (quoted)     "KU"   actions:   (bare)
\*   "KE"   actions=
\*   "Ac"   {"intent": "lead_criar", "slots": ["nome=Zed"]}
\*   "Aq"   {'intent': 'tarefa_criar', 'slots': ['titulo=T']}   (single quotes)
\*   "At"   the same object with double quotes (never in a reply, made by the repair)
\*   "Ad"   {"intent": "nota_adicionar", "slots": {"texto": "x"}}
\*   "An"   {"slots": []}                    "7"    a number
\* Entries that follow one another are separated by commas.
PlanItems == {"Ac", "Aq", "Ad", "An", "7"}

Opt(tok) == {<<>>, <<tok>>}

\* The replies of the exploration: prose, brace, key, bracket, entries, bracket,
\* brace, each part present or not.
PlanTexts ==
    {pre \o op \o key \o lb \o its \o rb \o cl :
        pre \in Opt("txt"), op \in Opt("{"), key \in {<<>>, <<"KQ">>, <<"KU">>, <<"KE">>},
        lb \in Opt("["), its \in SeqsUpTo(PlanItems, MaxItems), rb \in Opt("]"), cl \in Opt("}")}

\* The entries json.loads accepts as a value.
StrictItems == {"Ac", "At", "Ad", "An", "7"}

IsItem(v) == Len(v) = 1 /\ v[1] \in StrictItems

IsList(v) ==
    /\ Len(v) >= 2 /\ v[1] = "[" /\ v[Len(v)] = "]"
    /\ \A i \in 2..(Len(v) - 1) : v[i] \in StrictItems

\* The outcome of a json.loads call inside try/except: ok = FALSE when it raised
\* (obj = None), is_dict and has_list describe the value, items is obj["actions"].
NoJson == [ok |-> FALSE, is_dict |-> FALSE, has_list |-> FALSE, items |-> <<>>]

JsonDict(has_list, items) == [ok |-> TRUE, is_dict |-> TRUE, has_list |-> has_list, items |-> items]

JsonOther == [ok |-> TRUE, is_dict |-> FALSE, has_list |-> FALSE, items |-> <<>>]

\* json.loads
json_loads(t) ==
    IF t = <<"{", "}">> THEN JsonDict(FALSE, <<>>)
    ELSE IF Len(t) >= 3 /\ t[1] = "{" /\ t[2] = "KQ" /\ t[Len(t)] = "}"
    THEN LET v == SubSeq(t, 3, Len(t) - 1)
         IN  IF IsList(v) THEN JsonDict(TRUE, SubSeq(v, 2, Len(v) - 1))
             ELSE IF IsItem(v) THEN JsonDict(FALSE, <<>>)
             ELSE NoJson
    ELSE IF IsItem(t) THEN (IF t[1] = "7" THEN JsonOther ELSE JsonDict(FALSE, <<>>))
    ELSE IF IsList(t) THEN JsonOther
    ELSE NoJson

\* normalize_json_like: actions=... and a bare array are wrapped in an object, a
\* bare key after "{" is quoted, single quotes become double quotes.
normalize_json_like(s) ==
    LET t1 == IF s # <<>> /\ s[1] = "KE" THEN <<"{", "KQ">> \o Tail(s) \o <<"}">> ELSE s
        t2 == IF t1 # <<>> /\ t1[1] = "[" /\ t1[Len(t1)] = "]"
              THEN <<"{", "KQ">> \o t1 \o <<"}">> ELSE t1
    IN  [i \in 1..Len(t2) |->
            IF t2[i] = "KU" /\ i > 1 /\ t2[i - 1] = "{" THEN "KQ"
            ELSE IF t2[i] = "Aq" THEN "At"
            ELSE t2[i]]

\* Positions where a match of r"\{.*\bactions\b\s*:\s*\[.*\]\s*\}" may start:
\* a brace with a bare key and an opening bracket after it.
MatchStarts(raw) ==
    {i \in 1..Len(raw) :
        /\ raw[i] = "{"
        /\ \E j \in (i + 1)..(Len(raw) - 1) :
              /\ raw[j] = "KU" /\ raw[j + 1] = "["
              /\ \E e \in (j + 2)..Len(raw) :
                    raw[e] \in {"Ac", "Aq", "An"} \/ (raw[e] = "}" /\ raw[e - 1] = "]")}

\* Positions where "]" and "}" follow one another: inside an entry that ends
\* with a list, or as two tokens.
MatchEnds(raw) ==
    {e \in 1..Len(raw) :
        raw[e] \in {"Ac", "Aq", "An"} \/ (e > 1 /\ raw[e] = "}" /\ raw[e - 1] = "]")}

Min(S) == CHOOSE x \in S : \A y \in S : x <= y

Max(S) == CHOOSE x \in S : \A y \in S : y <= x

\* re.search(...).group(0): the leftmost match, as long as it can be.
MatchGroup(raw) == SubSeq(raw, Min(MatchStarts(raw)), Max(MatchEnds(raw)))

\* The loop over obj["actions"] (250-264): entries that are no object or have no
\* intent are skipped; a slots object becomes a one-element list holding it.
RECURSIVE Cleaned(_)
Cleaned(items) ==
    IF items = <<>> THEN <<>>
    ELSE LET it == Head(items)
             one == CASE it = "Ac" -> <<Act("lead_criar", <<Pair("nome", <<"Zed">>)>>)>>
                      [] it = "At" -> <<Act("tarefa_criar", <<Pair("titulo", <<"T">>)>>)>>
                      [] it = "Ad" -> <<Act("nota_adicionar", <<Pair("texto", <<"x">>)>>)>>
                      [] OTHER -> <<>>
         IN  one \o Cleaned(Tail(items))

\* A parse that takes a lone action object for a plan of one action.
parse_plan_actions_from_text_lenient(text) ==
    LET obj == json_loads(normalize_json_like(text))
    IN  IF obj.ok /\ obj.is_dict /\ obj.has_list THEN Cleaned(obj.items)
        ELSE IF Len(text) = 1 THEN Cleaned(normalize_json_like(text))
        ELSE <<>>

\* parse_plan_actions_from_text
parse_plan_actions_from_text(text) ==
    LET strict == json_loads(text)
        obj == IF strict.ok THEN strict
               ELSE IF MatchStarts(text) # {}
               THEN json_loads(normalize_json_like(MatchGroup(text)))
               ELSE json_loads(normalize_json_like(text))
    IN  IF ~obj.ok \/ ~obj.is_dict THEN <<>>
        ELSE IF ~obj.has_list THEN <<>>
        ELSE Cleaned(obj.items)

\* PlannerWrapper.invoke: the plan read from the model's reply.
plan_llm_invoke(text) == parse_plan_actions_from_text(text)

-----------------------------------------------------------------------------
(* Plan normalisation, dedup merge and prerequisite promotion *)

\* slots_strings_to_dict
slots_strings_to_dict(raw) == DictFromPairs(<<>>, raw)

\* A normalisation that filters no action out of the plan.
RECURSIVE NormalizeActions_unfiltered(_, _, _)
NormalizeActions_unfiltered(plan, primary_intent, lead_ctx) ==
    IF plan = <<>> THEN <<>>
    ELSE LET a == Head(plan)
             s0 == slots_strings_to_dict(a.slots)
             s1 == IF a.intent = "proposta_rascunhar" /\ ~DictHas(s0, "moeda")
                   THEN DictPut(s0, "moeda", <<"BRL">>) ELSE s0
             s2 == IF /\ a.intent \in INTENTS_REQUIRING_LEAD
                      /\ ~Truthy(DictGet(s1, "lead_ref_ou_id"))
                      /\ HasLead(lead_ctx)
                   THEN DictPut(s1, "lead_ref_ou_id", Str(lead_ctx.lead_id)) ELSE s1
         IN  <<Act(a.intent, s2)>> \o NormalizeActions_unfiltered(Tail(plan), primary_intent, lead_ctx)

\* A normalisation that writes the default currency over the planner's.
RECURSIVE NormalizeActions_currency_forced(_, _, _)
NormalizeActions_currency_forced(plan, primary_intent, lead_ctx) ==
    IF plan = <<>> THEN <<>>
    ELSE LET a == Head(plan)
             rest == NormalizeActions_currency_forced(Tail(plan), primary_intent, lead_ctx)
             s0 == slots_strings_to_dict(a.slots)
             s1 == IF a.intent = "proposta_rascunhar"
                   THEN DictPut(s0, "moeda", <<"BRL">>) ELSE s0
             s2 == IF /\ a.intent \in INTENTS_REQUIRING_LEAD
                      /\ ~Truthy(DictGet(s1, "lead_ref_ou_id"))
                      /\ HasLead(lead_ctx)
                   THEN DictPut(s1, "lead_ref_ou_id", Str(lead_ctx.lead_id)) ELSE s1
         IN  IF primary_intent # "" /\ a.intent = primary_intent THEN rest
             ELSE IF a.intent = "lead_criar" /\ HasLead(lead_ctx) THEN rest
             ELSE <<Act(a.intent, s2)>> \o rest

\* The per-action normalisation shared by prepare_plan (382-401) and the
\* re-plan of update_context (928-948): filter, default currency, lead injection.
RECURSIVE NormalizeActions(_, _, _)
NormalizeActions(plan, primary_intent, lead_ctx) ==
    IF plan = <<>> THEN <<>>
    ELSE LET a == Head(plan)
             rest == NormalizeActions(Tail(plan), primary_intent, lead_ctx)
             s0 == slots_strings_to_dict(a.slots)
             s1 == IF a.intent = "proposta_rascunhar" /\ ~DictHas(s0, "moeda")
                   THEN DictPut(s0, "moeda", <<"BRL">>) ELSE s0
             s2 == IF /\ a.intent \in INTENTS_REQUIRING_LEAD
                      /\ ~Truthy(DictGet(s1, "lead_ref_ou_id"))
                      /\ HasLead(lead_ctx)
                   THEN DictPut(s1, "lead_ref_ou_id", Str(lead_ctx.lead_id)) ELSE s1
         IN  IF primary_intent # "" /\ a.intent = primary_intent THEN rest
             ELSE IF a.intent = "lead_criar" /\ HasLead(lead_ctx) THEN rest
             ELSE <<Act(a.intent, s2)>> \o rest

Keys(q) == {k(q[i]) : i \in 1..Len(q)}

\* for act in new_actions: if k(act) not in keys: pending.append(act); keys.add(k(act))
RECURSIVE MergeActions(_, _)
MergeActions(pending, new_actions) ==
    IF new_actions = <<>> THEN pending
    ELSE IF k(Head(new_actions)) \in Keys(pending)
         THEN MergeActions(pending, Tail(new_actions))
         ELSE MergeActions(Append(pending, Head(new_actions)), Tail(new_actions))

\* A pop that takes the head of the queue whatever the index.
RemoveAt_head(q, i) == Tail(q)

\* pending.pop(i)
RemoveAt(q, i) == SubSeq(q, 1, i - 1) \o SubSeq(q, i + 1, Len(q))

FirstIndex(q, i) ==
    LET idx == {j \in 1..Len(q) : q[j].intent = i}
    IN  IF idx = {} THEN 0 ELSE CHOOSE j \in idx : \A j2 \in idx : j <= j2

\* prepare_plan: plan is the planner's output, raises tells that the call raised.
prepare_plan(plan, raises) ==
    /\ pc = "prepare_plan"
    /\ (raises => plan = <<>>)
    /\ LET pending0 == context.pending_actions
           pending == IF raises THEN pending0
                      ELSE MergeActions(pending0, NormalizeActions(plan, intent, lead_atual))
           ctx == IF raises
                  THEN [context EXCEPT !.planner_error = TRUE, !.pending_actions = pending]
                  ELSE [context EXCEPT !.planner_debug = plan, !.pending_actions = pending]
           needs_lead == /\ intent \in INTENTS_REQUIRING_LEAD
                         /\ ~(Truthy(DictGet(slots, "lead_ref_ou_id")) \/ HasLead(lead_atual))
           i == FirstIndex(pending, "lead_criar")
       IN  IF needs_lead /\ i > 0
           THEN /\ context' = [ctx EXCEPT !.pending_actions = RemoveAt(pending, i)]
                /\ intent' = "lead_criar"
                /\ slots' = pending[i].slots
           ELSE /\ context' = ctx
                /\ UNCHANGED <<intent, slots>>
    /\ pc' = "router"
    /\ planned' = Len(context'.pending_actions)
    /\ UNCHANGED <<turn, messages, lead_atual, errors, store, dispatched, resolve_runs,
                   replan_calls, replan_added, replan_plan>>

-----------------------------------------------------------------------------
(* Router *)

\* sorted(set(missing))
SortedNames(S) == SelectSeq(SlotNames, LAMBDA n : n \in S)

\* A collection of missing names that reads the required-slot table only.
MissingSlots_table_only(i, s, lead) ==
    LET required == REQUIRED_SLOTS(i)
    IN  {required[j] : j \in {j2 \in 1..Len(required) :
            /\ ~(required[j2] = "lead_ref_ou_id"
                 /\ (Truthy(DictGet(s, "lead_ref_ou_id")) \/ HasLead(lead)))
            /\ ~Truthy(DictGet(s, required[j2]))}}

\* The names router_node collects in `missing` (446-462).
MissingSlots(i, s, lead) ==
    LET required == REQUIRED_SLOTS(i)
        absent == {required[j] : j \in {j2 \in 1..Len(required) :
                      /\ ~(required[j2] = "lead_ref_ou_id"
                           /\ (Truthy(DictGet(s, "lead_ref_ou_id")) \/ HasLead(lead)))
                      /\ ~Truthy(DictGet(s, required[j2]))}}
        noref == IF /\ i \in INTENTS_REQUIRING_LEAD
                    /\ ~Truthy(DictGet(s, "lead_ref_ou_id"))
                    /\ ~HasLead(lead)
                 THEN {"lead_ref_ou_id"} ELSE {}
    IN  absent \cup noref

\* router_node's decision without the lead_resolution_attempted guard.
NeedResolution_no_guard(i, s, lead, ctx, missing) ==
    \/ i \in INTENTS_REQUIRING_LEAD /\ Truthy(DictGet(s, "lead_ref_ou_id")) /\ ~HasLead(lead)
    \/ missing # {} /\ i \in INTENTS_REQUIRING_LEAD /\ "lead_ref_ou_id" \in missing
    \/ missing # {} /\ ctx.need_lead_resolution

\* A decision that asks for resolution only for a missing lead reference.
NeedResolution_missing_only(i, s, lead, ctx, missing) ==
    IF missing # {}
    THEN IF /\ i \in INTENTS_REQUIRING_LEAD
            /\ "lead_ref_ou_id" \in missing
            /\ ~ctx.lead_resolution_attempted
         THEN TRUE ELSE ctx.need_lead_resolution
    ELSE FALSE

\* The value of context.need_lead_resolution that router_node leaves (463-485).
NeedResolution(i, s, lead, ctx, missing) ==
    LET afterMissing ==
            IF missing # {}
            THEN IF /\ i \in INTENTS_REQUIRING_LEAD
                    /\ "lead_ref_ou_id" \in missing
                    /\ ~ctx.lead_resolution_attempted
                 THEN TRUE ELSE ctx.need_lead_resolution
            ELSE FALSE
    IN  IF /\ i \in INTENTS_REQUIRING_LEAD
           /\ Truthy(DictGet(s, "lead_ref_ou_id"))
           /\ ~HasLead(lead)
           /\ ~ctx.lead_resolution_attempted
        THEN TRUE ELSE afterMissing

\* A routing that looks at the intent only.
route_intent_by_intent(i, ctx) ==
    IF i \in LEAD_INTENTS THEN "leads_agent"
    ELSE IF i \in NOTE_INTENTS THEN "handle_notes"
    ELSE IF i \in TASK_INTENTS THEN "handle_tasks"
    ELSE IF i \in PROPOSAL_INTENTS THEN "proposals_agent"
    ELSE "respond_final"

\* route_intent: the node that follows the router.
route_intent(i, ctx) ==
    IF ctx.need_lead_resolution THEN "resolve_lead"
    ELSE IF i \in LEAD_INTENTS THEN "leads_agent"
    ELSE IF i \in NOTE_INTENTS THEN "handle_notes"
    ELSE IF i \in TASK_INTENTS THEN "handle_tasks"
    ELSE IF i \in PROPOSAL_INTENTS THEN "proposals_agent"
    ELSE "respond_final"

router_node ==
    /\ pc = "router"
    /\ LET missing == MissingSlots(intent, slots, lead_atual)
           slots1 == IF /\ intent \in INTENTS_REQUIRING_LEAD
                        /\ ~Truthy(DictGet(slots, "lead_ref_ou_id"))
                        /\ HasLead(lead_atual)
                     THEN DictPut(slots, "lead_ref_ou_id", Str(lead_atual.lead_id))
                     ELSE slots
           need == NeedResolution(intent, slots1, lead_atual, context, missing)
           ctx == [context EXCEPT !.router_missing = SortedNames(missing),
                                  !.router_blocked = (missing # {}),
                                  !.need_lead_resolution = need]
       IN  /\ slots' = slots1
           /\ context' = ctx
           /\ errors' = IF missing # {}
                        THEN Append(errors, [intent |-> intent, missing |-> SortedNames(missing)])
                        ELSE errors
           /\ pc' = route_intent(intent, ctx)
    /\ UNCHANGED <<turn, messages, intent, lead_atual, store, history>>

-----------------------------------------------------------------------------
(* Lead resolution *)

FirstToken(text, S) ==
    LET idx == {i \in 1..Len(text) : text[i] \in S}
    IN  text[CHOOSE i \in idx : \A j \in idx : i <= j]

\* A reference extraction that looks for phone digits before an e-mail address.
extract_ref_from_text_phone_first(text) ==
    IF text = <<>> THEN <<>>
    ELSE IF \E i \in 1..Len(text) : text[i] \in UuidTokens THEN <<FirstToken(text, UuidTokens)>>
    ELSE IF SumDigits(text) >= 8 THEN normalize_phone(text)
    ELSE IF \E i \in 1..Len(text) : text[i] \in EmailTokens THEN <<FirstToken(text, EmailTokens)>>
    ELSE <<>>

\* helpers.extract_ref_from_text: <<>> stands for None.
extract_ref_from_text(text) ==
    IF text = <<>> THEN <<>>
    ELSE IF \E i \in 1..Len(text) : text[i] \in UuidTokens THEN <<FirstToken(text, UuidTokens)>>
    ELSE IF \E i \in 1..Len(text) : text[i] \in EmailTokens THEN <<FirstToken(text, EmailTokens)>>
    ELSE IF SumDigits(text) >= 8 THEN normalize_phone(text)
    ELSE <<>>

\* A lookup reading that never sees candidates.
Ambiguous_never(resp) == FALSE

\* resp and resp.get("error") and resp["error"].get("matches")
Ambiguous(resp) == resp.error /\ resp.matches # <<>>

\* A source chain that reads the message text before the reference slot.
ResolveOutcome_text_first(db, s, lead, ms, oldMatches) ==
    LET ref_slot == DictGet(s, "lead_ref_ou_id")
        resp2 == get_lead(db, ref_slot)
        ctx2 == lead_context_from_result(resp2)
        text == IF ms = <<>> THEN <<>> ELSE extract_text_content(ms[Len(ms)])
        ref_direct == extract_ref_from_text(text)
        ctx3 == lead_context_from_result(get_lead(db, ref_direct))
        term == DictGet(s, "nome") \o DictGet(s, "empresa")
        resp4 == tool_resolve_lead(db, term)
        ctx4 == IF resp4.error THEN NoLead ELSE get_lead_context(db, Str(resp4.data.lead_id))
        found(l) == [lead |-> l, slots |-> DictPut(s, "lead_ref_ou_id", Str(l.lead_id)),
                     matches |-> oldMatches, blocked |-> FALSE, set_lead |-> TRUE]
        ambiguous(m) == [lead |-> lead, slots |-> s, matches |-> m, blocked |-> TRUE,
                         set_lead |-> FALSE]
        keep == [lead |-> lead, slots |-> s, matches |-> oldMatches, blocked |-> FALSE,
                 set_lead |-> FALSE]
    IN  IF HasLead(lead) THEN keep
        ELSE IF Truthy(ref_direct) /\ HasLead(ctx3) THEN found(ctx3)
        ELSE IF Truthy(ref_slot) /\ HasLead(ctx2) THEN found(ctx2)
        ELSE IF Truthy(ref_slot) /\ Ambiguous(resp2) THEN ambiguous(resp2.matches)
        ELSE IF Truthy(term) /\ HasLead(ctx4) THEN found(ctx4)
        ELSE IF Truthy(term) /\ Ambiguous(resp4) THEN ambiguous(resp4.matches)
        ELSE keep

\* The outcome of resolve_lead's source chain (507-579):
\* [lead, slots, matches, blocked]; lead = NoLead when lead_atual is not returned.
ResolveOutcome(db, s, lead, ms, oldMatches) ==
    LET ref_slot == DictGet(s, "lead_ref_ou_id")
        resp2 == get_lead(db, ref_slot)
        ctx2 == lead_context_from_result(resp2)
        text == IF ms = <<>> THEN <<>> ELSE extract_text_content(ms[Len(ms)])
        ref_direct == extract_ref_from_text(text)
        ctx3 == lead_context_from_result(get_lead(db, ref_direct))
        term == DictGet(s, "nome") \o DictGet(s, "empresa")
        resp4 == tool_resolve_lead(db, term)
        ctx4 == IF resp4.error THEN NoLead ELSE get_lead_context(db, Str(resp4.data.lead_id))
        found(l) == [lead |-> l, slots |-> DictPut(s, "lead_ref_ou_id", Str(l.lead_id)),
                     matches |-> oldMatches, blocked |-> FALSE, set_lead |-> TRUE]
        ambiguous(m) == [lead |-> lead, slots |-> s, matches |-> m, blocked |-> TRUE,
                         set_lead |-> FALSE]
        keep == [lead |-> lead, slots |-> s, matches |-> oldMatches, blocked |-> FALSE,
                 set_lead |-> FALSE]
    IN  IF HasLead(lead) THEN keep
        ELSE IF Truthy(ref_slot) /\ HasLead(ctx2) THEN found(ctx2)
        ELSE IF Truthy(ref_slot) /\ Ambiguous(resp2) THEN ambiguous(resp2.matches)
        ELSE IF Truthy(ref_direct) /\ HasLead(ctx3) THEN found(ctx3)
        ELSE IF Truthy(term) /\ HasLead(ctx4) THEN found(ctx4)
        ELSE IF Truthy(term) /\ Ambiguous(resp4) THEN ambiguous(resp4.matches)
        ELSE keep

resolve_lead ==
    /\ pc = "resolve_lead"
    /\ LET out == ResolveOutcome(leads, slots, lead_atual, messages, context.matches)
       IN  /\ context' = [context EXCEPT !.lead_resolution_attempted = TRUE,
                                         !.need_lead_resolution = FALSE,
                                         !.router_blocked = out.blocked,
                                         !.matches = out.matches]
           /\ slots' = out.slots
           /\ lead_atual' = IF out.set_lead THEN out.lead ELSE lead_atual
    /\ resolve_runs' = resolve_runs + 1
    /\ pc' = "router"
    /\ UNCHANGED <<turn, messages, intent, errors, store, dispatched, replan_calls, plan_history>>

-----------------------------------------------------------------------------
(* Handlers *)

Segment(i, text, ok, data) == [intent |-> i, text |-> text, ok |-> ok, data |-> data]

\* A recorder that keeps only the segment it is given.
push_ai_response_only_last(ctx, i, text, ok, data) ==
    [ctx EXCEPT !.ai_responses = <<Segment(i, text, ok, data)>>]

\* helpers.push_ai_response
push_ai_response(ctx, i, text, ok, data) ==
    [ctx EXCEPT !.ai_responses = Append(@, Segment(i, text, ok, data))]

Dispatch == Append(dispatched, Act(intent, slots))

\* The lead reference a handler works with: the slot, else lead_atual's id.
HandlerLeadRef == IF Truthy(DictGet(slots, "lead_ref_ou_id"))
                  THEN DictGet(slots, "lead_ref_ou_id")
                  ELSE Str(lead_atual.lead_id)

handle_notes ==
    /\ pc = "handle_notes"
    /\ dispatched' = Dispatch
    /\ LET lead_ref == HandlerLeadRef
           r == resolve_lead_id_by_ref(leads, lead_ref)
           texto == DictGet(slots, "texto")
       IN  IF ~Truthy(lead_ref)
           THEN /\ messages' = Append(messages, AIMessage(<<"preciso_lead">>))
                /\ UNCHANGED <<context, notes>>
           ELSE IF intent = "nota_adicionar" /\ ~Truthy(texto)
           THEN /\ messages' = Append(messages, AIMessage(<<"preciso_texto">>))
                /\ UNCHANGED <<context, notes>>
           ELSE IF r.lead_id = ""
           THEN \* add_note_to_lead / list_notes return an error envelope
                LET msg == IF r.matches # <<>> THEN <<"mais_de_um_lead">> ELSE <<"lead_nao_encontrado">>
                IN  /\ context' = push_ai_response(context, intent, msg, FALSE, NoData)
                    /\ messages' = Append(messages, AIMessage(msg))
                    /\ UNCHANGED notes
           ELSE IF intent = "nota_adicionar"
           THEN /\ notes' = Append(notes, [lead_id |-> r.lead_id, texto |-> texto])
                /\ context' = push_ai_response(context, intent, <<"nota_registrada">>, TRUE, NoData)
                /\ messages' = Append(messages, AIMessage(<<"nota_registrada">>))
           ELSE /\ context' = push_ai_response(context, intent, <<"notas_encontradas">>, TRUE, NoData)
                /\ messages' = Append(messages, AIMessage(<<"notas_encontradas">>))
                /\ UNCHANGED notes
    /\ pc' = "update_context"
    /\ UNCHANGED <<turn, intent, slots, lead_atual, errors, leads, tasks, proposals,
                   resolve_runs, replan_calls, plan_history>>

TaskTypes == {<<"ligacao">>, <<"email">>, <<"reuniao">>, <<"tarefa">>}

OpenTasksOf(lead_id) ==
    SelectSeq(Reverse(tasks), LAMBDA t : t.lead_id = lead_id /\ t.status = "aberta")

handle_tasks ==
    /\ pc = "handle_tasks"
    /\ dispatched' = Dispatch
    /\ LET lead_ref == HandlerLeadRef
           r == resolve_lead_id_by_ref(leads, lead_ref)
           titulo == DictGet(slots, "titulo")
           tipo == IF Truthy(DictGet(slots, "tipo")) THEN DictGet(slots, "tipo") ELSE <<"tarefa">>
           open == IF r.lead_id = "" THEN <<>> ELSE OpenTasksOf(r.lead_id)
           tarefa_id == IF Truthy(DictGet(slots, "tarefa_id")) THEN DictGet(slots, "tarefa_id")
                        ELSE IF Truthy(lead_ref) /\ open # <<>> THEN Str(open[1].id)
                        ELSE <<>>
           fail(msg) == /\ context' = push_ai_response(context, intent, msg, FALSE, NoData)
                        /\ messages' = Append(messages, AIMessage(msg))
                        /\ UNCHANGED tasks
           only(msg) == /\ messages' = Append(messages, AIMessage(msg))
                        /\ UNCHANGED <<context, tasks>>
       IN  CASE intent = "tarefa_criar" ->
                  IF ~Truthy(lead_ref) THEN only(<<"preciso_lead">>)
                  ELSE IF ~Truthy(titulo) THEN only(<<"preciso_titulo">>)
                  ELSE IF tipo \notin TaskTypes THEN fail(<<"tipo_invalido">>)
                  ELSE IF r.lead_id = ""
                  THEN fail(IF r.matches # <<>> THEN <<"mais_de_um_lead">> ELSE <<"lead_nao_encontrado">>)
                  ELSE /\ tasks' = Append(tasks, [id |-> TaskIds[Len(tasks) + 1],
                                                  lead_id |-> r.lead_id, status |-> "aberta"])
                       /\ context' = push_ai_response(context, intent, <<"tarefa_criada">>, TRUE, NoData)
                       /\ messages' = Append(messages, AIMessage(<<"tarefa_criada">>))
             [] intent = "tarefa_concluir" ->
                  IF ~Truthy(tarefa_id) THEN only(<<"preciso_tarefa_id">>)
                  ELSE IF ~is_uuid(tarefa_id) THEN fail(<<"tarefa_id_invalido">>)
                  ELSE IF ~\E j \in 1..Len(tasks) : tasks[j].id = tarefa_id[1]
                  THEN fail(<<"tarefa_nao_encontrada">>)
                  ELSE /\ tasks' = [j \in 1..Len(tasks) |->
                                       IF tasks[j].id = tarefa_id[1]
                                       THEN [tasks[j] EXCEPT !.status = "concluida"]
                                       ELSE tasks[j]]
                       /\ context' = push_ai_response(context, intent, <<"tarefa_concluida">>, TRUE, NoData)
                       /\ messages' = Append(messages, AIMessage(<<"tarefa_concluida">>))
             [] OTHER ->
                  \* tarefa_listar: "lead not found" falls back to the unfiltered list
                  IF Truthy(lead_ref) /\ r.lead_id = "" /\ r.matches # <<>>
                  THEN fail(<<"mais_de_um_lead">>)
                  ELSE /\ context' = push_ai_response(context, intent, <<"tarefas_encontradas">>, TRUE, NoData)
                       /\ messages' = Append(messages, AIMessage(<<"tarefas_encontradas">>))
                       /\ UNCHANGED tasks
    /\ pc' = "update_context"
    /\ UNCHANGED <<turn, intent, slots, lead_atual, errors, leads, notes, proposals,
                   resolve_runs, replan_calls, plan_history>>

\* The ReAct subgraph for leads: the model either calls the intent's tool with the
\* slots it was given, or answers without a tool call.
leads_agent(call) ==
    /\ pc = "leads_agent"
    /\ dispatched' = Dispatch
    /\ LET nome == DictGet(slots, "nome")
           ref == HandlerLeadRef
           got == get_lead(leads, ref)
           newId == LeadIds[Len(leads) + 1]
           reply(tool) == messages \o <<AIMessage(<<>>), tool, AIMessage(<<"feito">>)>>
       IN  IF ~call
           THEN /\ messages' = Append(messages, AIMessage(<<"feito">>))
                /\ UNCHANGED leads
           ELSE CASE intent = "lead_criar" /\ Truthy(nome) ->
                       /\ leads' = Append(leads, [id |-> newId, nome |-> nome, email |-> <<>>,
                                                  telefone |-> <<>>,
                                                  empresa |-> DictGet(slots, "empresa")])
                       /\ messages' = reply(ToolMessage("create_lead", [NoData EXCEPT !.lead_id = newId]))
                  [] intent = "lead_criar" /\ ~Truthy(nome) ->
                       /\ messages' = reply(ToolMessage("create_lead", NoData))
                       /\ UNCHANGED leads
                  [] intent = "lead_obter" ->
                       /\ messages' = reply(ToolMessage("get_lead", [NoData EXCEPT !.lead_id = got.data.lead_id]))
                       /\ UNCHANGED leads
                  [] intent = "lead_atualizar" ->
                       /\ messages' = reply(ToolMessage("update_lead",
                              IF is_uuid(ref) /\ (\E j \in 1..Len(leads) : leads[j].id = ref[1])
                              THEN [NoData EXCEPT !.lead_id = ref[1]] ELSE NoData))
                       /\ UNCHANGED leads
                  [] OTHER ->
                       /\ messages' = reply(ToolMessage("search_leads", NoData))
                       /\ UNCHANGED leads
    /\ pc' = "update_context"
    /\ UNCHANGED <<turn, intent, slots, lead_atual, errors, context, notes, tasks, proposals,
                   resolve_runs, replan_calls, plan_history>>

\* The ReAct subgraph for proposals: the model calls the intent's tool or answers
\* without a tool call; after a proposal was drafted it may go on (more) and add an
\* item to it before it answers.
proposals_agent(call, more) ==
    /\ pc = "proposals_agent"
    /\ dispatched' = Dispatch
    /\ LET r == resolve_lead_id_by_ref(leads, HandlerLeadRef)
           titulo == DictGet(slots, "titulo")
           moeda == IF DictHas(slots, "moeda") THEN DictGet(slots, "moeda") ELSE <<"BRL">>
           newId == ProposalIds[Len(proposals) + 1]
           itemId == ItemIds[Len(proposals) + 1]
           drafted == ToolMessage("draft_proposal",
                                  [NoData EXCEPT !.lead_id = r.lead_id, !.proposta_id = newId])
           added == ToolMessage("add_proposal_item",
                                [NoData EXCEPT !.proposta_id = newId, !.item_id = itemId])
           reply(tool) == messages \o <<AIMessage(<<>>), tool, AIMessage(<<"feito">>)>>
       IN  IF ~call
           THEN /\ ~more
                /\ messages' = Append(messages, AIMessage(<<"feito">>))
                /\ UNCHANGED proposals
           ELSE IF intent = "proposta_rascunhar" /\ Truthy(titulo) /\ r.lead_id # ""
           THEN /\ proposals' = Append(proposals, [id |-> newId, lead_id |-> r.lead_id, moeda |-> moeda,
                                                    itens |-> IF more THEN 1 ELSE 0])
                /\ messages' = IF more
                               THEN messages \o <<AIMessage(<<>>), drafted, AIMessage(<<>>), added,
                                                  AIMessage(<<"feito">>)>>
                               ELSE reply(drafted)
           ELSE /\ ~more
                /\ messages' = reply(ToolMessage(IF intent = "proposta_rascunhar"
                                                 THEN "draft_proposal" ELSE "list_proposals", NoData))
                /\ UNCHANGED proposals
    /\ pc' = "update_context"
    /\ UNCHANGED <<turn, intent, slots, lead_atual, errors, context, leads, notes, tasks,
                   resolve_runs, replan_calls, plan_history>>

-----------------------------------------------------------------------------
(* Context consolidation *)

\* The semantic key of a recorded segment (763-779); "" when it has none.
SegmentKey(seg) ==
    IF seg.intent = "lead_criar" /\ seg.data.lead_id # "" THEN <<"lead", seg.data.lead_id>>
    ELSE IF seg.intent = "proposta_rascunhar" /\ seg.data.proposta_id # ""
    THEN <<"draft", seg.data.proposta_id>>
    ELSE IF seg.intent = "proposta_adicionar_item" /\ seg.data.proposta_id # "" /\ seg.data.item_id # ""
    THEN <<"item", seg.data.proposta_id, seg.data.item_id>>
    ELSE <<>>

\* A scan that takes no segment as already recorded.
ExistingKeys_none(segs) == {}

ExistingKeys(segs) == {SegmentKey(segs[i]) : i \in 1..Len(segs)} \ {<<>>}

\* One iteration of the scan over ToolMessages (790-859): the lead of the first
\* message that carries one, and a segment for each creation not yet recorded.
\* acc = [new_lead, slots, ctx, keys]
ScanStep(msg, db, acc) ==
    LET d == msg.data
        found == IF d.lead_id # "" /\ ~HasLead(acc.new_lead)
                 THEN get_lead_context(db, Str(d.lead_id)) ELSE acc.new_lead
        slots1 == IF d.lead_id # "" /\ ~HasLead(acc.new_lead) /\ HasLead(found)
                  THEN DictSetDefault(acc.slots, "lead_ref_ou_id", Str(found.lead_id))
                  ELSE acc.slots
        key == IF msg.name = "create_lead" /\ d.lead_id # "" THEN <<"lead", d.lead_id>>
               ELSE IF msg.name = "draft_proposal" /\ d.proposta_id # ""
               THEN <<"draft", d.proposta_id>>
               ELSE IF msg.name = "add_proposal_item" /\ d.proposta_id # "" /\ d.item_id # ""
               THEN <<"item", d.proposta_id, d.item_id>>
               ELSE <<>>
        push == key # <<>> /\ key \notin acc.keys
        ctx1 == IF ~push THEN acc.ctx
                ELSE IF msg.name = "create_lead"
                THEN push_ai_response(acc.ctx, "lead_criar", <<"lead_criado", d.lead_id>>, TRUE,
                                      [NoData EXCEPT !.lead_id = d.lead_id])
                ELSE IF msg.name = "draft_proposal"
                THEN push_ai_response(acc.ctx, "proposta_rascunhar",
                                      <<"proposta_rascunhada", d.proposta_id>>, TRUE, d)
                ELSE push_ai_response(acc.ctx, "proposta_adicionar_item", <<"item_adicionado">>,
                                      TRUE, d)
    IN  [new_lead |-> found, slots |-> slots1, ctx |-> ctx1,
         keys |-> IF push THEN acc.keys \cup {key} ELSE acc.keys]

\* The scan of the history's ToolMessages, most recent first (783-859).
RECURSIVE ScanToolMessages(_, _, _)
ScanToolMessages(ms, db, acc) ==
    IF ms = <<>> THEN acc
    ELSE IF ms[Len(ms)].type # "tool"
    THEN ScanToolMessages(SubSeq(ms, 1, Len(ms) - 1), db, acc)
    ELSE CHOOSE out \in {ScanToolMessages(SubSeq(ms, 1, Len(ms) - 1), db, nxt) :
                            nxt \in {ScanStep(ms[Len(ms)], db, acc)}} : TRUE

\* A step 3.1 that writes the new lead to every queued action that needs a lead.
InjectPending_overwrite(q, new_lead) ==
    [j \in 1..Len(q) |->
        LET a == q[j]
            s1 == IF a.intent \in INTENTS_REQUIRING_LEAD
                  THEN DictPut(a.slots, "lead_ref_ou_id", Str(new_lead.lead_id)) ELSE a.slots
            s2 == IF a.intent = "proposta_rascunhar" /\ ~DictHas(s1, "moeda")
                  THEN DictPut(s1, "moeda", <<"BRL">>) ELSE s1
        IN  Act(a.intent, s2)]

\* Step 3.1 (865-888): lead reference and default currency for queued actions.
InjectPending(q, new_lead) ==
    [j \in 1..Len(q) |->
        LET a == q[j]
            s1 == IF a.intent \in INTENTS_REQUIRING_LEAD /\ ~Truthy(DictGet(a.slots, "lead_ref_ou_id"))
                  THEN DictPut(a.slots, "lead_ref_ou_id", Str(new_lead.lead_id)) ELSE a.slots
            s2 == IF a.intent = "proposta_rascunhar" /\ ~DictHas(s1, "moeda")
                  THEN DictPut(s1, "moeda", <<"BRL">>) ELSE s1
        IN  Act(a.intent, s2)]

\* A set of executed kinds that counts successful segments only.
ExecutedIntents_ok_only(segs) == {segs[j].intent : j \in {j2 \in 1..Len(segs) : segs[j2].ok}}

\* for seg in ai_responses: executed_intents.add(seg["intent"]) (952-958)
ExecutedIntents(segs) == {segs[j].intent : j \in 1..Len(segs)}

\* A re-plan condition that ignores the replanned flag.
ShouldReplan_unflagged(ctx) == ctx.pending_actions = <<>>

\* Whether this pass calls the planner (897-899).
ShouldReplan(ctx) == ctx.pending_actions = <<>> /\ ~ctx.replanned

\* helpers.has_pending
has_pending(ctx) == IF ctx.pending_actions # <<>> THEN "execute_pending" ELSE "respond_final"

\* A re-plan whose failure discards the segments recorded so far.
AfterReplan_failure_discards(ctx1, replan, raises, fresh) ==
    IF replan /\ ~raises
    THEN [ctx1 EXCEPT !.pending_actions = MergeActions(@, fresh), !.replanned = TRUE]
    ELSE IF raises THEN [ctx1 EXCEPT !.ai_responses = <<>>]
    ELSE ctx1

\* The context after step 3.1 and the re-plan (865-972).
AfterReplan(ctx1, replan, raises, fresh) ==
    IF replan /\ ~raises
    THEN [ctx1 EXCEPT !.pending_actions = MergeActions(@, fresh), !.replanned = TRUE]
    ELSE ctx1

\* update_context: plan and raises describe the planner call of the re-plan, if any.
update_context(plan, raises) ==
    /\ pc = "update_context"
    /\ \E scan \in {ScanToolMessages(messages, leads,
                        [new_lead |-> NoLead, slots |-> slots, ctx |-> context,
                         keys |-> ExistingKeys(context.ai_responses)])} :
       \E new_lead \in {IF ~HasLead(scan.new_lead) /\ Truthy(DictGet(scan.slots, "lead_ref_ou_id"))
                        THEN get_lead_context(leads, DictGet(scan.slots, "lead_ref_ou_id"))
                        ELSE scan.new_lead} :
       \E ctx1 \in {IF HasLead(new_lead) /\ scan.ctx.pending_actions # <<>>
                    THEN [scan.ctx EXCEPT !.pending_actions = InjectPending(@, new_lead)]
                    ELSE scan.ctx} :
       LET replan == ShouldReplan(ctx1)
           lead_ctx == IF HasLead(new_lead) THEN new_lead ELSE lead_atual
           new_actions == NormalizeActions(plan, intent, lead_ctx)
           fresh == SelectSeq(new_actions, LAMBDA a : a.intent \notin ExecutedIntents(ctx1.ai_responses))
       IN  /\ (~replan => plan = <<>> /\ ~raises)
           /\ (raises => plan = <<>>)
           /\ slots' = scan.slots
           /\ context' = AfterReplan(ctx1, replan, raises, fresh)
           /\ lead_atual' = IF HasLead(new_lead) THEN new_lead ELSE lead_atual
           /\ replan_calls' = IF replan THEN replan_calls + 1 ELSE replan_calls
           /\ replan_added' = replan_added + Len(context'.pending_actions) - Len(ctx1.pending_actions)
           /\ replan_plan' = IF replan /\ ~raises THEN plan ELSE replan_plan
           /\ pc' = has_pending(context')
    /\ UNCHANGED <<turn, messages, intent, errors, store, dispatched, resolve_runs, planned>>

\* A pop that takes the queue's last action away instead of its first.
PopHead_last(q) == SubSeq(q, 1, Len(q) - 1)

\* A pop whose result is never written back to the queue.
PopHead_keep(q) == q

\* pending_actions.pop(0), written back to context.pending_actions
PopHead(q) == Tail(q)

\* execute_pending: pop the head of the queue and make it the active action.
execute_pending ==
    /\ pc = "execute_pending"
    /\ context.pending_actions # <<>>
    /\ LET action == Head(context.pending_actions)
           act_slots == IF ~Truthy(DictGet(action.slots, "lead_ref_ou_id")) /\ HasLead(lead_atual)
                        THEN DictPut(action.slots, "lead_ref_ou_id", Str(lead_atual.lead_id))
                        ELSE action.slots
       IN  /\ intent' = action.intent
           /\ slots' = act_slots
           /\ context' = [context EXCEPT !.pending_actions = PopHead(@)]
    /\ pc' = "router"
    /\ UNCHANGED <<turn, messages, lead_atual, errors, store, history>>

-----------------------------------------------------------------------------
(* Final reply *)

\* actions_txt (1019-1027): the texts of the successful segments, in order.
SuccessTexts(segs) ==
    LET sel == SelectSeq(segs, LAMBDA seg : seg.text # <<>> /\ seg.ok)
    IN  [j \in 1..Len(sel) |-> sel[j].text]

\* errors_txt (1019-1027): the texts of the failed segments, in order.
FailureTexts(segs) ==
    LET sel == SelectSeq(segs, LAMBDA seg : seg.text # <<>> /\ ~seg.ok)
    IN  [j \in 1..Len(sel) |-> sel[j].text]

respond_final ==
    /\ pc = "respond_final"
    /\ LET texts == SuccessTexts(context.ai_responses) \o FailureTexts(context.ai_responses)
       IN  IF intent = "listar_status_lead"
           THEN /\ context' = push_ai_response(context, intent, <<"status_validos">>, TRUE, NoData)
                /\ messages' = Append(messages, AIMessage(<<"status_validos">>))
           ELSE IF texts = <<>>
           THEN /\ messages' = Append(messages, AIMessage(extract_text_content(messages[Len(messages)])))
                /\ UNCHANGED context
           ELSE /\ context' = [context EXCEPT !.ai_responses = <<>>]
                /\ messages' = Append(messages, AIMessage(<<"resumo">>))
    /\ pc' = "end"
    /\ UNCHANGED <<turn, intent, slots, lead_atual, errors, store, history>>

-----------------------------------------------------------------------------
(* Specification *)

\* The first turn of a conversation, with every input of the catalogues.
Next ==
    \/ \E text \in UserTexts : start_turn(text, 1)
    \/ \E parsed \in TurnInputs : parse_and_classify(parsed)
    \/ \E plan \in Plans, raises \in BOOLEAN : prepare_plan(plan, raises)
    \/ router_node
    \/ resolve_lead
    \/ handle_notes
    \/ handle_tasks
    \/ \E call \in BOOLEAN : leads_agent(call)
    \/ \E call \in BOOLEAN, more \in BOOLEAN : proposals_agent(call, more)
    \/ \E plan \in Replans, raises \in BOOLEAN : update_context(plan, raises)
    \/ execute_pending
    \/ respond_final

Spec == Init /\ [][Next]_vars

\* A conversation of up to MaxTurns turns on one thread, with the follow-up inputs.
NextTurns ==
    \/ \E u \in FollowUpInputs : start_turn(u.text, MaxTurns)
    \/ \E parsed \in FollowUpInputs : parse_and_classify(parsed)
    \/ \E plan \in FollowUpPlans, raises \in BOOLEAN : prepare_plan(plan, raises)
    \/ router_node
    \/ resolve_lead
    \/ handle_notes
    \/ handle_tasks
    \/ \E call \in BOOLEAN : leads_agent(call)
    \/ \E plan \in FollowUpPlans, raises \in BOOLEAN : update_context(plan, raises)
    \/ execute_pending
    \/ respond_final

SpecTurns == Init /\ [][NextTurns]_vars

\* An exception leaves the node that was running: the node's update is not
\* applied and the graph run ends with the exception instead of reaching END.
Escapes ==
    /\ pc' = "raised"
    /\ UNCHANGED <<turn, messages, intent, slots, lead_atual, errors, context, store, history>>

\* parse_and_classify when the classifier call raises (349, outside any try).
parse_and_classify_raises ==
    /\ pc = "parse_and_classify"
    /\ Escapes

\* handle_notes when add_note_to_lead / list_notes raises (602, 614): the handler
\* calls the tool once it has a lead reference and, for a new note, a text.
handle_notes_raises ==
    /\ pc = "handle_notes"
    /\ intent \in NOTE_INTENTS
    /\ Truthy(HandlerLeadRef)
    /\ intent = "nota_adicionar" => Truthy(DictGet(slots, "texto"))
    /\ Escapes

\* handle_tasks when create_task / list_tasks / complete_task raises (666, 684,
\* 691, 708, 716).
handle_tasks_raises ==
    /\ pc = "handle_tasks"
    /\ \/ intent = "tarefa_criar" /\ Truthy(HandlerLeadRef) /\ Truthy(DictGet(slots, "titulo"))
       \/ intent = "tarefa_concluir"
             /\ (Truthy(DictGet(slots, "tarefa_id")) \/ Truthy(HandlerLeadRef))
       \/ intent = "tarefa_listar"
    /\ Escapes

\* respond_final when the summariser call raises (1045): reached when the intent
\* is not the status lookup and some segment has a text.
respond_final_raises ==
    /\ pc = "respond_final"
    /\ intent # "listar_status_lead"
    /\ \E i \in 1..Len(context.ai_responses) : context.ai_responses[i].text # <<>>
    /\ Escapes

\* The first turn, where a collaborator called outside a try block may raise.
NextFaults ==
    \/ Next
    \/ parse_and_classify_raises
    \/ handle_notes_raises
    \/ handle_tasks_raises
    \/ respond_final_raises

SpecFaults == Init /\ [][NextFaults]_vars

\* Message texts of the reference-extraction exploration: words, identifiers,
\* e-mail addresses, a phone number and a short number, in any order.
TextTokens == {"nota", "L1", "L2", "m@x", "z@z", "5551234567", "42"}

Texts == SeqsUpTo(TextTokens, MaxText)

\* Each text is a request to add a note that names no lead in its slots.
ExtractInputs ==
    {[text |-> t, intent |-> "nota_adicionar", slots |-> <<Pair("texto", <<"x">>)>>] : t \in Texts}

\* A first turn up to lead resolution, over every text of Texts.
NextExtract ==
    \/ \E text \in Texts : start_turn(text, 1)
    \/ \E parsed \in ExtractInputs : parse_and_classify(parsed)
    \/ prepare_plan(<<>>, FALSE)
    \/ router_node
    \/ resolve_lead

SpecExtract == Init /\ [][NextExtract]_vars

\* The inputs of the exploration of planner replies: small talk, and a note
\* that names no lead.
PlanTextInputs ==
    { [text |-> <<"oi">>, intent |-> "conversa_geral", slots |-> <<>>],
      [text |-> <<"nota">>, intent |-> "nota_adicionar",
       slots |-> <<Pair("texto", <<"x">>)>>] }

\* The replies the planner gives to a re-plan in that exploration.
ReplanTexts == {<<>>, <<"txt">>, <<"{", "}">>}

\* A conversation of up to MaxTurns turns in which prepare_plan reads the plan
\* from a reply of PlanTexts, or the planner call raises.
NextPlanText ==
    \/ \E u \in PlanTextInputs : start_turn(u.text, MaxTurns)
    \/ \E parsed \in PlanTextInputs : parse_and_classify(parsed)
    \/ \E plan \in {plan_llm_invoke(text) : text \in PlanTexts} : prepare_plan(plan, FALSE)
    \/ prepare_plan(<<>>, TRUE)
    \/ router_node
    \/ resolve_lead
    \/ handle_notes
    \/ handle_tasks
    \/ \E call \in BOOLEAN : leads_agent(call)
    \/ \E plan \in {plan_llm_invoke(text) : text \in ReplanTexts} : update_context(plan, FALSE)
    \/ update_context(<<>>, TRUE)
    \/ execute_pending
    \/ respond_final

SpecPlanText == Init /\ [][NextPlanText]_vars

\* The first turn under the graph runtime, which runs the next node of a turn
\* until the turn reaches END.
SpecFair == Spec /\ WF_vars(Next)

-----------------------------------------------------------------------------
(* Properties *)

\* Two actions are the same action: same intent, same slot names with the same
\* values, whatever the insertion order of the slots.
SameAction(a, b) == a.intent = b.intent /\ Range(a.slots) = Range(b.slots)

Copies(q, a) == Cardinality({i \in 1..Len(q) : SameAction(q[i], a)})

Classes(q) == {<<q[i].intent, Range(q[i].slots)>> : i \in 1..Len(q)}

NoTwoSame(q) == \A i, j \in 1..Len(q) : i # j => ~SameAction(q[i], q[j])

\* The queue as prepare_plan's merge left it: the queue of the next state, with
\* the promoted action (if one was promoted) counted back in.
MergedByPreparePlan ==
    IF intent' # intent
    THEN Append(context'.pending_actions, Act(intent', slots'))
    ELSE context'.pending_actions

\* merged is q0 followed by one copy of every action of batch that q0 lacks.
MergeOnce(q0, batch, merged) ==
    /\ \A i \in 1..Len(batch) :
          Copies(merged, batch[i]) = IF Copies(q0, batch[i]) > 0 THEN Copies(q0, batch[i]) ELSE 1
    /\ Len(merged) = Len(q0) + Cardinality(Classes(batch) \ Classes(q0))

\* C1: a merge of planned actions (in prepare_plan, and in the re-plan of
\* update_context, which runs on an empty queue) adds exactly one copy of every
\* action that the queue does not already hold, and none of an action it holds or
\* that came earlier in the batch, whatever the insertion order of the slots.
C1_MergeKeepsOneCopy ==
    [][\A plan \in FollowUpPlans :
          /\ prepare_plan(plan, FALSE) =>
                MergeOnce(context.pending_actions,
                          NormalizeActions(plan, intent, lead_atual), MergedByPreparePlan)
          /\ (update_context(plan, FALSE) /\ replan_calls' > replan_calls) =>
                MergeOnce(<<>>,
                          SelectSeq(NormalizeActions(plan, intent, lead_atual'),
                                    LAMBDA a : a.intent \notin ExecutedIntents(context'.ai_responses)),
                          context'.pending_actions)]_vars

\* C1 witness: the planner listed the same action twice with its slots in two
\* orders, and prepare_plan left one copy in the queue.
C1_Witness ==
    /\ pc = "router" /\ dispatched = <<>> /\ resolve_runs = 0
    /\ Len(context.planner_debug) = 2
    /\ context.planner_debug[1] # context.planner_debug[2]
    /\ SameAction(context.planner_debug[1], context.planner_debug[2])
    /\ Copies(context.pending_actions, context.planner_debug[1]) = 1

\* C2: in every reachable state the queue holds no two actions with the same
\* dedup key.
C2_QueueKeysDistinct == NoTwoSame(context.pending_actions)

\* C3: within one turn no two handler dispatches carry the same action.
C3_NoRepeatedDispatch == NoTwoSame(dispatched)

\* C4: when prepare_plan ends its merge with an active intent that requires a
\* lead, no lead reference in the active slots, no resolved lead and a lead_criar
\* in the merged queue, the first lead_criar leaves the queue and becomes the
\* active action; the other queued actions keep their relative order.
C4_PromotesFirstLeadCriar ==
    [][\A plan \in Plans, raises \in BOOLEAN :
          prepare_plan(plan, raises) =>
            LET merged == IF raises THEN context.pending_actions
                          ELSE MergeActions(context.pending_actions,
                                            NormalizeActions(plan, intent, lead_atual))
                creates == {j \in 1..Len(merged) : merged[j].intent = "lead_criar"}
                q1 == context'.pending_actions
            IN  ( /\ intent \in INTENTS_REQUIRING_LEAD
                  /\ ~Truthy(DictGet(slots, "lead_ref_ou_id"))
                  /\ ~HasLead(lead_atual)
                  /\ creates # {} )
                => \E i \in creates :
                      /\ \A j \in creates : i <= j
                      /\ intent' = "lead_criar"
                      /\ slots' = merged[i].slots
                      /\ Len(q1) = Len(merged) - 1
                      /\ \A j \in 1..Len(q1) : q1[j] = IF j < i THEN merged[j] ELSE merged[j + 1]]_vars

\* C4 witness: the primary action was a note without a lead, the planner listed
\* lead_criar second, and prepare_plan made lead_criar the active action while
\* the action listed first stayed in the queue.
C4_Witness ==
    /\ pc = "router" /\ dispatched = <<>> /\ resolve_runs = 0
    /\ LastHumanText(messages) = <<"nota">>
    /\ intent = "lead_criar"
    /\ Len(context.planner_debug) = 2
    /\ context.planner_debug[2].intent = "lead_criar"
    /\ Len(context.pending_actions) = 1
    /\ context.pending_actions[1].intent = context.planner_debug[1].intent

\* C5: in a turn that starts with no resolved lead and whose plan contains a
\* lead_criar, every dispatch of a lead-requiring action comes after a dispatch
\* of lead_criar.
C5_CreationPrecedesDependents ==
    (\E i \in 1..Len(context.planner_debug) : context.planner_debug[i].intent = "lead_criar")
    => \A j \in 1..Len(dispatched) :
          dispatched[j].intent \in INTENTS_REQUIRING_LEAD
          => \E i \in 1..(j - 1) : dispatched[i].intent = "lead_criar"

\* C6: resolve_lead runs at most once in a turn, and once it has run the router
\* never asks for a resolution again in that turn.
C6_ResolveAtMostOnce ==
    /\ resolve_runs <= 1
    /\ (resolve_runs = 1 /\ pc # "end") => ~context.need_lead_resolution

\* C6 witness: resolve_lead ran and found no lead, and a later queued action
\* that requires a lead reached its handler without one.
C6_Witness ==
    /\ resolve_runs = 1
    /\ ~HasLead(lead_atual)
    /\ Len(dispatched) = 2
    /\ dispatched[2].intent \in INTENTS_REQUIRING_LEAD
    /\ ~Truthy(DictGet(dispatched[2].slots, "lead_ref_ou_id"))

\* C7: the resolution-attempted flag is false at the start of every turn.
C7_AttemptedFalseAtTurnStart ==
    pc = "parse_and_classify" => ~context.lead_resolution_attempted

\* C8: update_context calls the planner for a re-plan at most once in a turn.
C8_ReplanAtMostOnce == replan_calls <= 1

\* C8 witness: the queue is empty for the second time in a turn whose re-plan
\* already happened, and update_context is about to run.
C8_Witness ==
    /\ pc = "update_context"
    /\ replan_calls = 1
    /\ context.replanned
    /\ context.pending_actions = <<>>
    /\ Len(dispatched) >= 2

\* C9: the turn-scoped flags do not carry over to the next turn.
C9_FlagsFreshAtTurnStart ==
    pc = "parse_and_classify" =>
        /\ ~context.router_blocked
        /\ context.router_missing = <<>>
        /\ ~context.need_lead_resolution
        /\ ~context.lead_resolution_attempted
        /\ ~context.replanned
        /\ context.matches = <<>>

\* The lookups resolve_lead makes in the current state, and what they report.
SlotLookup == resolve_lead_id_by_ref(leads, DictGet(slots, "lead_ref_ou_id"))

SlotLookupMade == ~HasLead(lead_atual) /\ Truthy(DictGet(slots, "lead_ref_ou_id"))

TermLookup == resolve_lead_id_by_ref(leads, DictGet(slots, "nome") \o DictGet(slots, "empresa"))

TermLookupMade ==
    /\ ~HasLead(lead_atual)
    /\ SlotLookupMade => SlotLookup.lead_id = "" /\ Len(SlotLookup.matches) = 0
    /\ resolve_lead_id_by_ref(leads,
           extract_ref_from_text(extract_text_content(messages[Len(messages)]))).lead_id = ""
    /\ Truthy(DictGet(slots, "nome") \o DictGet(slots, "empresa"))

\* C10: when a lookup of resolve_lead reports more than one matching lead, the
\* node leaves lead_atual and the slots as they were, sets router_blocked and
\* stores exactly the reported candidates in context.matches.
C10_AmbiguousLookupBlocks ==
    [][pc = "resolve_lead" =>
          /\ (SlotLookupMade /\ Len(SlotLookup.matches) > 1) =>
                /\ lead_atual' = lead_atual /\ slots' = slots
                /\ context'.router_blocked
                /\ context'.matches = SlotLookup.matches
          /\ (TermLookupMade /\ Len(TermLookup.matches) > 1) =>
                /\ lead_atual' = lead_atual /\ slots' = slots
                /\ context'.router_blocked
                /\ context'.matches = TermLookup.matches]_vars

\* C10 witness: the reference "Acme" matched two leads; resolve_lead returned
\* with both candidates, the flow blocked and no lead chosen.
C10_Witness ==
    /\ pc = "router" /\ resolve_runs = 1
    /\ DictGet(slots, "lead_ref_ou_id") = <<"Acme">>
    /\ ~HasLead(lead_atual)
    /\ context.router_blocked
    /\ Len(context.matches) = 2

\* The turn's first dispatch was a note-adding action whose lead reference
\* matches two leads.
AmbiguousNoteTurn ==
    /\ Len(dispatched) >= 1
    /\ dispatched[1].intent = "nota_adicionar"
    /\ Len(resolve_lead_id_by_ref(leads, DictGet(dispatched[1].slots, "lead_ref_ou_id")).matches) = 2

\* C11: a note-adding action whose lead reference matches two leads, with no
\* lead resolved before, ends the turn blocked, with exactly the two candidates
\* in context.matches and no note written.
C11_AmbiguousNoteEndsBlocked ==
    (pc = "respond_final" /\ Len(dispatched) = 1 /\ AmbiguousNoteTurn /\ ~HasLead(lead_atual))
    => /\ context.router_blocked
       /\ context.matches =
              resolve_lead_id_by_ref(leads, DictGet(dispatched[1].slots, "lead_ref_ou_id")).matches
       /\ notes = <<>>

\* A first turn whose message is classified lead_criar, whose plan is the
\* compound request, and in which every tool call made so far succeeded.
FullRequestTurn ==
    /\ LastHumanText(messages) = <<"criar">>
    /\ context.planner_debug = FullRequestPlan
    /\ (Len(dispatched) >= 1 => Len(leads) = Len(InitialLeads) + 1)
    /\ (Len(dispatched) >= 3 => Len(proposals) = 1 /\ proposals[1].itens = 0)

ExpectedIntents == <<"lead_criar", "nota_adicionar", "proposta_rascunhar">>

\* C12: in such a turn the handlers are dispatched in the order lead_criar,
\* nota_adicionar, proposta_rascunhar; the note and the proposal carry the created
\* lead's id and the proposal the currency BRL; respond_final receives the three
\* segments in that order (exactly three when no further action was planned), and
\* it produces one summarised reply.
C12_CompoundRequestInOrder ==
    FullRequestTurn =>
        /\ \A j \in 1..Len(dispatched) : j <= 3 => dispatched[j].intent = ExpectedIntents[j]
        /\ \A j \in 2..Len(dispatched) :
              j <= 3 => DictGet(dispatched[j].slots, "lead_ref_ou_id") = <<leads[Len(leads)].id>>
        /\ Len(dispatched) >= 3 => DictGet(dispatched[3].slots, "moeda") = <<"BRL">>
        /\ pc = "respond_final" =>
              /\ Len(dispatched) >= 3
              /\ Len(context.ai_responses) >= 3
              /\ \A j \in 1..3 : context.ai_responses[j].intent = ExpectedIntents[j] /\ context.ai_responses[j].ok
              /\ Len(dispatched) = 3 => Len(context.ai_responses) = 3
        /\ pc = "end" =>
              Cardinality({j \in 1..Len(messages) : messages[j] = AIMessage(<<"resumo">>)}) = 1

\* C12 witness: the three actions were dispatched and respond_final is about to
\* run with the three segments.
C12_Witness ==
    /\ FullRequestTurn
    /\ pc = "respond_final"
    /\ Len(dispatched) = 3
    /\ Len(context.ai_responses) = 3

\* C13: every turn reaches respond_final; each execute_pending shortens the
\* queue by exactly one, only prepare_plan and the turn's single re-plan lengthen
\* it, and the handler dispatches of a turn number at most 1 + (queue length
\* after prepare_plan) + (actions added by the re-plan).
C13_TurnTerminates ==
    /\ [](Len(dispatched) <= 1 + planned + replan_added)
    /\ [](pc \notin {"end", "parse_and_classify", "prepare_plan"} =>
            Len(dispatched) + Len(context.pending_actions) <= 1 + planned + replan_added)
    /\ [][pc = "execute_pending" =>
            Len(context'.pending_actions) = Len(context.pending_actions) - 1]_vars
    /\ [][Len(context'.pending_actions) > Len(context.pending_actions) =>
            \/ pc = "prepare_plan"
            \/ pc = "update_context" /\ replan_calls = 0 /\ replan_calls' = 1]_vars
    /\ (pc = "parse_and_classify" ~> pc = "respond_final")

\* C13 witness: a turn that dispatched as many actions as the bound allows, the
\* re-plan having added one, stands at respond_final.
C13_Witness ==
    /\ pc = "respond_final"
    /\ planned >= 1
    /\ replan_added >= 1
    /\ Len(dispatched) = 1 + planned + replan_added

\* C14: whenever respond_final runs the queue is empty, and it is empty when
\* the turn has ended.
C14_QueueEmptyAtEnd ==
    (pc = "respond_final" \/ (pc = "end" /\ turn > 0)) => context.pending_actions = <<>>

\* The lookup resolve_lead makes with the reference found in the text of the
\* last message.
TextLookup ==
    resolve_lead_id_by_ref(leads,
        extract_ref_from_text(extract_text_content(messages[Len(messages)])))

\* The step set lead_atual to the lead with this id and wrote the id to the slot.
ResolvedTo(id) ==
    /\ lead_atual' = Candidate(RowOf(leads, id))
    /\ DictGet(slots', "lead_ref_ou_id") = <<id>>

LeftAsWas == lead_atual' = lead_atual /\ slots' = slots

\* C15: resolve_lead tries (1) a resolved lead_atual, (2) the lead_ref_ou_id
\* slot, (3) a reference in the message text, (4) the nome/empresa slots, in that
\* order; the first source that finds a lead sets lead_atual and rewrites the slot
\* to its id, an ambiguity stops the chain, and a later source counts only when
\* every earlier one found neither.
C15_SourcesInOrder ==
    [][pc = "resolve_lead" =>
          LET slotHit == SlotLookupMade /\ SlotLookup.lead_id # ""
              slotAmb == SlotLookupMade /\ SlotLookup.matches # <<>>
              textHit == TextLookup.lead_id # ""
              termHit == TermLookupMade /\ TermLookup.lead_id # ""
          IN  /\ HasLead(lead_atual) => LeftAsWas
              /\ slotHit => ResolvedTo(SlotLookup.lead_id)
              /\ slotAmb => LeftAsWas
              /\ (~HasLead(lead_atual) /\ ~slotHit /\ ~slotAmb /\ textHit)
                    => ResolvedTo(TextLookup.lead_id)
              /\ (~slotHit /\ ~slotAmb /\ ~textHit /\ termHit) => ResolvedTo(TermLookup.lead_id)
              /\ (~slotHit /\ ~textHit /\ ~termHit) => LeftAsWas]_vars

\* C15 witness: the slot named Joao while the message text carried Maria's e-mail;
\* resolve_lead took the slot's lead.
C15_Witness ==
    /\ pc = "router" /\ resolve_runs = 1 /\ dispatched = <<>>
    /\ LastHumanText(messages) = <<"nota", "5551234567", "m@x">>
    /\ lead_atual.nome = <<"Joao">>
    /\ DictGet(slots, "lead_ref_ou_id") = <<lead_atual.lead_id>>

\* The text resolve_lead reads: the text of the last message.
LastText == IF messages = <<>> THEN <<>> ELSE extract_text_content(messages[Len(messages)])

\* Positions of the text holding a token of S.
Positions(text, S) == {i \in 1..Len(text) : text[i] \in S}

\* The token at the least position of P.
Leftmost(text, P) == text[CHOOSE i \in P : \A j \in P : i <= j]

\* The digit-bearing tokens of the text in their order, as sequences of positions.
DigitRuns(text) ==
    LET P == {i \in 1..Len(text) : DigitCount(text[i]) > 0}
        nth[n \in 0..Cardinality(P)] ==
            IF n = 0 THEN <<>>
            ELSE Append(nth[n - 1],
                        text[CHOOSE i \in P : Cardinality({j \in P : j < i}) = n - 1])
    IN  nth[Cardinality(P)]

\* C16: extract_ref_from_text returns the first identifier of the text if it has
\* one, otherwise its first e-mail address, otherwise its digits when there are
\* at least 8, otherwise nothing; a text with an e-mail address and a phone number
\* and no identifier yields the e-mail address, and the lead resolve_lead then
\* finds is the owner of that address.
C16_ExtractPriority ==
    LET text == LastText
        ref == extract_ref_from_text(text)
        ids == Positions(text, UuidTokens)
        mails == Positions(text, EmailTokens)
    IN  /\ pc = "resolve_lead" =>
              /\ ids # {} => ref = <<Leftmost(text, ids)>>
              /\ (ids = {} /\ mails # {}) => ref = <<Leftmost(text, mails)>>
              /\ (ids = {} /\ mails = {} /\ SumDigits(text) >= 8) => ref = DigitRuns(text)
              /\ (ids = {} /\ mails = {} /\ SumDigits(text) < 8) => ref = <<>>
        /\ (pc = "router" /\ resolve_runs = 1 /\ ids = {} /\ mails # {}
              /\ Leftmost(text, mails) = "m@x" /\ Positions(text, PhoneTokens) # {})
            => lead_atual.email = <<"m@x">>

\* C16 witness: the text held Joao's phone number before Maria's e-mail address,
\* and resolve_lead resolved Maria.
C16_Witness ==
    /\ pc = "router" /\ resolve_runs = 1
    /\ LastText = <<"5551234567", "m@x">>
    /\ extract_ref_from_text(LastText) = <<"m@x">>
    /\ lead_atual.nome = <<"Maria">>

\* C17: once lead_atual holds a resolved lead, update_context never replaces it
\* with a different lead, whatever identifiers the tool messages of the history
\* or the active slots carry.
C17_ResolvedLeadKept ==
    [][(pc = "update_context" /\ HasLead(lead_atual)) => lead_atual' = lead_atual]_vars

\* The list a is an initial part of the list b.
IsPrefix(a, b) == Len(a) <= Len(b) /\ SubSeq(b, 1, Len(a)) = a

\* C18: no node other than respond_final removes or replaces an entry of
\* ai_responses; every other node leaves the list as it was or appends to its end.
C18_OnlyRespondFinalRemoves ==
    [][pc # "respond_final" => IsPrefix(context.ai_responses, context'.ai_responses)]_vars

\* C18 witness: a second action of the turn has run and its segment stands after
\* the first one's.
C18_Witness ==
    /\ pc = "update_context"
    /\ Len(dispatched) = 2
    /\ Len(context.ai_responses) >= 2
    /\ context.ai_responses[1].intent = dispatched[1].intent
    /\ context.ai_responses[Len(context.ai_responses)].intent = dispatched[2].intent

\* C19: after respond_final has run, on each of its paths, ai_responses is
\* empty, so no segment of one turn is there when the next turn starts.
C19_SegmentsClearedAtEnd ==
    (pc = "end" /\ turn > 0) => context.ai_responses = <<>>

\* C20: no collaborator failure is fatal: when a call to the classifier, the
\* planner, a tool inside a handler, a resolver lookup or the summariser raises,
\* no exception leaves the node.
C20_NoExceptionEscapes == pc # "raised"

\* A tool message of the leads or proposals agent that carries an error envelope:
\* create_lead and draft_proposal return data with the new identifier on success
\* and {"error": ...} without data otherwise.
ErrorEnvelope(m) ==
    /\ m.type = "tool"
    /\ \/ m.name = "create_lead" /\ m.data.lead_id = ""
       \/ m.name = "draft_proposal" /\ m.data.proposta_id = ""

ToolIntent(name) == IF name = "create_lead" THEN "lead_criar" ELSE "proposta_rascunhar"

\* C21: every tool operation that returned an error envelope while a handler
\* executed an action of the turn is recorded as a segment with ok = FALSE, which
\* respond_final finds among the failures of the turn.
C21_ToolErrorsRecorded ==
    pc = "respond_final" =>
        \A i \in 1..Len(messages) :
            ErrorEnvelope(messages[i]) =>
                \E j \in 1..Len(context.ai_responses) :
                    /\ ~context.ai_responses[j].ok
                    /\ context.ai_responses[j].intent = ToolIntent(messages[i].name)

\* The slots the active intent needs: those of its row of the required-slot
\* table, and the lead reference when the intent works on a lead.
Needed ==
    Range(REQUIRED_SLOTS(intent))
        \cup (IF intent \in INTENTS_REQUIRING_LEAD THEN {"lead_ref_ou_id"} ELSE {})

\* A needed slot is absent; the lead reference counts as present when lead_atual
\* holds a lead id.
Absent(n) ==
    /\ \A j \in 1..Len(slots) : slots[j][1] = n => slots[j][2] = <<>>
    /\ n = "lead_ref_ou_id" => lead_atual.lead_id = ""

\* C22: immediately after router_node, router_missing lists exactly the needed
\* slots of the active intent that are absent, each once, and router_blocked is
\* true exactly when that list is non-empty.
C22_BlockedIffMissing ==
    [][pc = "router" =>
          /\ Range(context'.router_missing) = {n \in Needed : Absent(n)}
          /\ Len(context'.router_missing) = Cardinality({n \in Needed : Absent(n)})
          /\ context'.router_blocked <=> (context'.router_missing # <<>>)]_vars

\* C22 witness: the router has just found the lead reference of a note missing,
\* and on another turn the task id of a task to close.
C22_Witness ==
    /\ context.router_blocked
    /\ \/ pc = "resolve_lead" /\ intent = "nota_adicionar"
            /\ context.router_missing = <<"lead_ref_ou_id">>
       \/ pc = "handle_tasks" /\ intent = "tarefa_concluir"
            /\ context.router_missing = <<"tarefa_id">>

\* C23, as stated: router_node sets need_lead_resolution only when the lead
\* reference is among the missing slots and resolution has not been attempted, and
\* leaves it false when the lead reference slot is present.
C23_OnlyForMissingReference ==
    [][pc = "router" =>
          /\ context'.need_lead_resolution =>
                /\ \E j \in 1..Len(context'.router_missing) :
                      context'.router_missing[j] = "lead_ref_ou_id"
                /\ ~context.lead_resolution_attempted
          /\ (\E j \in 1..Len(slots) : slots[j][1] = "lead_ref_ou_id" /\ slots[j][2] # <<>>)
                => ~context'.need_lead_resolution]_vars

\* C23, amended: router_node leaves need_lead_resolution true exactly when the
\* active intent works on a lead, no lead is resolved and resolution has not been
\* attempted, whether the lead reference slot is missing or holds a reference
\* that is not resolved yet.
C23_ForUnresolvedLead ==
    [][pc = "router" =>
          (context'.need_lead_resolution <=>
              /\ intent \in INTENTS_REQUIRING_LEAD
              /\ lead_atual.lead_id = ""
              /\ ~context.lead_resolution_attempted)]_vars

\* C23 witness: the router asked for resolution of a note whose lead reference
\* slot holds a name.
C23_Witness ==
    /\ pc = "resolve_lead"
    /\ context.need_lead_resolution
    /\ context.router_missing = <<>>
    /\ DictGet(slots, "lead_ref_ou_id") = <<"Acme">>

\* C24: when router_node left router_blocked true for the active action and no
\* resolution is pending, the handler that runs next writes nothing to the record
\* store for that action.
C24_BlockedActionWritesNothing ==
    [][(pc \in {"leads_agent", "handle_notes", "handle_tasks", "proposals_agent"}
          /\ context.router_blocked /\ ~context.need_lead_resolution)
       => store' = store]_vars

\* The queued action b is the queued action a, possibly with slots filled in.
SameQueued(a, b) == a.intent = b.intent /\ Range(a.slots) \subseteq Range(b.slots)

\* The queue q2 keeps every action of q at its place and may have more at its tail.
KeepsOrder(q, q2) ==
    /\ Len(q) <= Len(q2)
    /\ \A i \in 1..Len(q) : SameQueued(q[i], q2[i])

\* prepare_plan made a queued lead_criar the active action.
Promoted == pc = "prepare_plan" /\ intent # "lead_criar" /\ intent' = "lead_criar"

\* C25: apart from the lead_criar promotion, actions leave pending_actions only
\* from the head: execute_pending removes exactly the first action and makes it
\* the active intent and slots; every other node keeps the queued actions at
\* their places and adds new ones at the tail only.
C25_QueueIsFifo ==
    [][/\ pc = "execute_pending" =>
             /\ context.pending_actions # <<>>
             /\ intent' = context.pending_actions[1].intent
             /\ Range(context.pending_actions[1].slots) \subseteq Range(slots')
             /\ Len(context'.pending_actions) = Len(context.pending_actions) - 1
             /\ \A i \in 1..Len(context'.pending_actions) :
                   context'.pending_actions[i] = context.pending_actions[i + 1]
       /\ (pc # "execute_pending" /\ ~Promoted) =>
             KeepsOrder(context.pending_actions, context'.pending_actions)]_vars

\* C25 witness: execute_pending has made the first of several queued actions
\* the active one and the others are still queued.
C25_Witness ==
    /\ pc = "router"
    /\ Len(dispatched) = 1
    /\ planned >= 2
    /\ Len(context.pending_actions) = planned - 1
    /\ intent # dispatched[1].intent

\* C26: each handler execution followed by update_context adds exactly one
\* segment to ai_responses; in the first turn, whenever update_context has
\* finished, there are as many segments as actions handed to a handler.
C26_OneSegmentPerAction ==
    (turn = 1 /\ pc \in {"execute_pending", "respond_final"})
        => Len(context.ai_responses) = Len(dispatched)

\* Position of the user message that opened the current turn.
TurnStart == CHOOSE i \in 1..Len(messages) :
                 messages[i].type = "human" /\ \A j \in (i + 1)..Len(messages) : messages[j].type # "human"

\* The segments a step appended to ai_responses.
Appended ==
    {context'.ai_responses[j] : j \in (Len(context.ai_responses) + 1)..Len(context'.ai_responses)}

\* C27: a tool result is turned into a segment at most once: update_context
\* appends no segment for the created lead of a tool message of an earlier turn,
\* whose result that turn's update_context has recorded already.
C27_RecordedOnce ==
    [][pc = "update_context" =>
          \A seg \in Appended :
              \A i \in 1..Len(messages) :
                  (/\ seg.intent = "lead_criar"
                   /\ messages[i].type = "tool" /\ messages[i].name = "create_lead"
                   /\ messages[i].data.lead_id = seg.data.lead_id)
                  => i > TurnStart]_vars

\* update_context has just made its re-plan and the planner answered.
Replanned == pc = "update_context" /\ ~context.replanned /\ context'.replanned

\* The kinds the re-plan leaves out: the active intent, lead_criar when a lead is
\* resolved, and the kinds in Done.
Excluded(a, Done) ==
    \/ a.intent = intent
    \/ a.intent = "lead_criar" /\ lead_atual'.lead_id # ""
    \/ a.intent \in Done

\* The planned action p was enqueued as the queue entry q, slots possibly filled in.
EnqueuedAs(p, q) ==
    /\ q.intent = p.intent
    /\ \A j \in 1..Len(p.slots) : \E j2 \in 1..Len(q.slots) : q.slots[j2] = p.slots[j]

\* The queue q holds actions of the plan only, in the plan's order.
InPlannerOrder(q, plan) ==
    \E f \in [1..Len(q) -> 1..Len(plan)] :
        /\ \A i \in 1..Len(q) : EnqueuedAs(plan[f[i]], q[i])
        /\ \A i, i2 \in 1..Len(q) : i < i2 => f[i] < f[i2]

\* The queue a re-plan leaves, given the set of kinds that count as done.
ReplanEnqueues(Done) ==
    LET q == context'.pending_actions
    IN  /\ \A i \in 1..Len(q) : ~Excluded(q[i], Done)
        /\ \A j \in 1..Len(replan_plan') :
              ~Excluded(replan_plan'[j], Done) => \E i \in 1..Len(q) : EnqueuedAs(replan_plan'[j], q[i])
        /\ \A i, i2 \in 1..Len(q) : i # i2 => ~SameAction(q[i], q[i2])
        /\ InPlannerOrder(q, replan_plan')

\* C28, as stated: the re-plan leaves out the kinds that have a successful
\* segment in ai_responses, the active intent and lead_criar when a lead is
\* resolved, and appends every other re-planned action once, in planner order.
C28_ReplanSkipsSucceededKinds ==
    [][Replanned =>
          ReplanEnqueues({context'.ai_responses[j].intent :
                             j \in {j2 \in 1..Len(context'.ai_responses) : context'.ai_responses[j2].ok}})]_vars

\* C28, amended: the re-plan leaves out the kinds that have any segment in
\* ai_responses, successful or failed, the active intent and lead_criar when a
\* lead is resolved, and appends every other re-planned action once, in planner
\* order.
C28_ReplanSkipsRecordedKinds ==
    [][Replanned =>
          ReplanEnqueues({context'.ai_responses[j].intent : j \in 1..Len(context'.ai_responses)})]_vars

\* C28 witness: the re-plan proposed a note after a note had failed in this turn
\* and another kind was active, and the queue stayed empty.
C28_Witness ==
    /\ context.replanned
    /\ pc = "respond_final"
    /\ intent # "nota_adicionar"
    /\ \E j \in 1..Len(replan_plan) : replan_plan[j].intent = "nota_adicionar"
    /\ \E j \in 1..Len(context.ai_responses) :
          context.ai_responses[j].intent = "nota_adicionar" /\ ~context.ai_responses[j].ok
    /\ context.pending_actions = <<>>

\* C29: when respond_final runs with no segment recorded and the intent is not
\* the status lookup, its reply is the text of the turn's user message, and no
\* tool was called in the turn.
C29_EchoesUserText ==
    [][(pc = "respond_final" /\ context.ai_responses = <<>> /\ intent # "listar_status_lead") =>
          /\ messages'[Len(messages')].type = "ai"
          /\ messages'[Len(messages')].text = messages[TurnStart].text
          /\ \A i \in TurnStart..Len(messages) : messages[i].type # "tool"]_vars

\* C30: every segment recorded during a turn is handed to the summariser by that
\* turn's respond_final; no recorded outcome is left out of the reply: when
\* respond_final runs with segments recorded, its reply is the summariser's and
\* the segments are consumed.
C30_EverySegmentSummarised ==
    [][(pc = "respond_final" /\ turn = 1 /\ context.ai_responses # <<>>) =>
          /\ messages'[Len(messages')].text = <<"resumo">>
          /\ context'.ai_responses = <<>>]_vars

\* The actions a step added to the queue: prepare_plan's merge appends to the
\* queue it found (a promoted action counted back in), and the re-plan of
\* update_context runs on an empty queue.
AddedByMerge ==
    IF pc = "prepare_plan"
    THEN Range(MergedByPreparePlan) \ Range(context.pending_actions)
    ELSE IF pc = "update_context" /\ context.pending_actions = <<>>
    THEN Range(context'.pending_actions)
    ELSE {}

\* C31: no action that a merge (prepare_plan's, or the re-plan's) adds to the queue
\* has the kind of the action that is active when the merge runs, and none is a
\* lead_criar when a lead is resolved at that moment (lead_atual for prepare_plan;
\* the lead update_context has just consolidated, else lead_atual, for the re-plan).
C31_MergeFiltersKinds ==
    [][\A a \in AddedByMerge :
          /\ a.intent # intent
          /\ a.intent = "lead_criar" =>
                IF pc = "prepare_plan" THEN lead_atual.lead_id = "" ELSE lead_atual'.lead_id = ""]_vars

\* C31 witness: with Maria resolved and lead_obter active, the re-plan proposed a
\* lead_criar, and nothing was queued.
C31_Witness ==
    /\ pc = "respond_final"
    /\ context.replanned
    /\ intent = "lead_obter"
    /\ lead_atual.lead_id # ""
    /\ \E j \in 1..Len(replan_plan) : replan_plan[j].intent = "lead_criar"
    /\ context.pending_actions = <<>>

\* The actions the planner has listed in this turn, at prepare_plan and at the re-plan.
PlannedThisTurn == context.planner_debug \o replan_plan

\* The value the planner gave for a slot of its action p, if it gave one.
Given(p, n) == {p.slots[j][2] : j \in {j2 \in 1..Len(p.slots) : p.slots[j2][1] = n}}

\* The values a queued action q holds for the slot n.
Held(q, n) == {q.slots[j][2] : j \in {j2 \in 1..Len(q.slots) : q.slots[j2][1] = n}}

\* C32: in every reachable state, every queued proposta_rascunhar has a moeda
\* slot: it is the planner's action with the planner's currency when the planner
\* gave one, and with BRL when it gave none.
C32_QueuedProposalHasCurrency ==
    \A i \in 1..Len(context.pending_actions) :
        LET q == context.pending_actions[i]
        IN  q.intent = "proposta_rascunhar" =>
              /\ Cardinality(Held(q, "moeda")) = 1
              /\ \E j \in 1..Len(PlannedThisTurn) :
                    LET p == PlannedThisTurn[j]
                    IN  /\ EnqueuedAs(p, q)
                        /\ Held(q, "moeda") = IF Given(p, "moeda") = {} THEN {<<"BRL">>}
                                              ELSE Given(p, "moeda")

\* C32 witness: the planner asked for a proposal in USD; it waits in the queue in
\* USD, with the lead that was created meanwhile written to it.
C32_Witness ==
    /\ pc = "execute_pending"
    /\ context.planner_debug = CurrencyPlan
    /\ Len(context.pending_actions) = 1
    /\ context.pending_actions[1].intent = "proposta_rascunhar"
    /\ Held(context.pending_actions[1], "moeda") = {<<"USD">>}
    /\ Held(context.pending_actions[1], "lead_ref_ou_id") = {<<"L3">>}

\* The tokens from position a to position b of the reply are entries of a list.
EntriesAt(text, a, b) == \A i \in a..b : text[i] \in PlanItems

StartsWith(text, head) == Len(text) >= Len(head) /\ SubSeq(text, 1, Len(head)) = head

EndsWith(text, end) ==
    Len(text) >= Len(end) /\ SubSeq(text, Len(text) + 1 - Len(end), Len(text)) = end

\* Strict parsing or a repair yields an object with an actions list for a reply of
\* one of four shapes: the object written out with a quoted key; an object with a
\* bare key, prose allowed before it; actions=[...]; a bare array that is no
\* valid JSON as it stands.
YieldsActionsList(text) ==
    LET n == Len(text)
    IN  \/ /\ n >= 5 /\ StartsWith(text, <<"{", "KQ", "[">>) /\ EndsWith(text, <<"]", "}">>)
           /\ EntriesAt(text, 4, n - 2)
        \/ /\ n >= 5 /\ StartsWith(text, <<"{", "KU", "[">>) /\ EndsWith(text, <<"]", "}">>)
           /\ EntriesAt(text, 4, n - 2)
        \/ /\ n >= 6 /\ StartsWith(text, <<"txt", "{", "KU", "[">>) /\ EndsWith(text, <<"]", "}">>)
           /\ EntriesAt(text, 5, n - 2)
        \/ /\ n >= 3 /\ StartsWith(text, <<"KE", "[">>) /\ EndsWith(text, <<"]">>)
           /\ EntriesAt(text, 3, n - 1)
        \/ /\ n >= 2 /\ StartsWith(text, <<"[">>) /\ EndsWith(text, <<"]">>)
           /\ EntriesAt(text, 2, n - 1)
           /\ \E i \in 2..(n - 1) : text[i] = "Aq"

\* The kinds of action the graph knows.
Kinds == LEAD_INTENTS \cup NOTE_INTENTS \cup TASK_INTENTS \cup PROPOSAL_INTENTS
            \cup {"listar_status_lead", "conversa_geral"}

\* The value is a list of actions.
IsActionList(plan) ==
    /\ DOMAIN plan = 1..Len(plan)
    /\ \A i \in 1..Len(plan) : plan[i].intent \in Kinds /\ DOMAIN plan[i].slots = 1..Len(plan[i].slots)

\* For every reply the parse gives a list, the empty one when the reply yields
\* no actions list.
ParsesToList ==
    \A text \in PlanTexts :
        /\ IsActionList(plan_llm_invoke(text))
        /\ ~YieldsActionsList(text) => plan_llm_invoke(text) = <<>>

\* prepare_plan has just read a reply that yields no actions list, and so has
\* recorded an empty plan.
ReadUnreadableReply ==
    /\ pc = "prepare_plan"
    /\ context'.planner_debug = <<>>
    /\ \E text \in PlanTexts : ~YieldsActionsList(text) /\ prepare_plan(plan_llm_invoke(text), FALSE)

\* The step took the first lead_criar out of the queue and made it the active action.
TookQueuedLeadCriar ==
    LET q == context.pending_actions
    IN  \E i \in 1..Len(q) :
            /\ q[i].intent = "lead_criar"
            /\ \A j \in 1..(i - 1) : q[j].intent # "lead_criar"
            /\ intent' = "lead_criar" /\ slots' = q[i].slots
            /\ context'.pending_actions = [j \in 1..(Len(q) - 1) |-> IF j < i THEN q[j] ELSE q[j + 1]]

NotePromotedAway ==
    /\ LastHumanText(messages) = <<"nota">>
    /\ Len(dispatched) >= 1
    /\ dispatched[1].intent = "lead_criar"

\* C34: every action the turn has to perform is dispatched to its handler in
\* that turn: when prepare_plan has promoted lead_criar ahead of the classifier's
\* primary action, the turn does not reach respond_final before the displaced
\* action, with its slots, has been dispatched too.
C34_DisplacedPrimaryDispatched ==
    (pc = "respond_final" /\ NotePromotedAway) =>
        \E j \in 1..Len(dispatched) :
            /\ dispatched[j].intent = "nota_adicionar"
            /\ DictGet(dispatched[j].slots, "texto") = <<"x">>

\* The segment records the result of a tool operation, and this is the position
\* of that operation's message in the history (0 when it has none).
ToolPosition(seg) ==
    LET at == {i \in 1..Len(messages) :
                  /\ messages[i].type = "tool"
                  /\ \/ seg.intent = "lead_criar" /\ messages[i].name = "create_lead"
                        /\ messages[i].data.lead_id = seg.data.lead_id
                     \/ seg.intent = "proposta_rascunhar" /\ messages[i].name = "draft_proposal"
                        /\ messages[i].data.proposta_id = seg.data.proposta_id
                     \/ seg.intent = "proposta_adicionar_item" /\ messages[i].name = "add_proposal_item"
                        /\ messages[i].data.item_id = seg.data.item_id}
    IN  IF at = {} THEN 0 ELSE CHOOSE i \in at : \A j \in at : i <= j

\* C35: ai_responses lists the segments in the order in which their tool
\* operations were executed, also when one handler execution performs several
\* tool operations: of two segments that record tool operations, the earlier in
\* the list records the operation executed first.
C35_SegmentsInExecutionOrder ==
    \A i, j \in 1..Len(context.ai_responses) :
        (/\ i < j
         /\ ToolPosition(context.ai_responses[i]) > 0
         /\ ToolPosition(context.ai_responses[j]) > 0)
        => ToolPosition(context.ai_responses[i]) < ToolPosition(context.ai_responses[j])


\* The reference the latest human message of the conversation yields.
HumanRef == extract_ref_from_text(LastHumanText(messages))

\* resolve_lead reaches its text fallback: no lead yet, and the reference slot
\* is empty, so that source 2 is skipped.
AtTextFallback ==
    /\ pc = "resolve_lead"
    /\ ~HasLead(lead_atual)
    /\ ~Truthy(DictGet(slots, "lead_ref_ou_id"))

\* C36: when resolve_lead reaches its text fallback and the latest human
\* message holds a reference that identifies a lead, resolve_lead makes that
\* lead the current one, also when earlier actions of the turn have appended
\* assistant or tool messages after the human message.
C36_TextFallbackReadsHumanMessage ==
    [][(AtTextFallback /\ HasLead(get_lead_context(leads, HumanRef)))
         => lead_atual' = get_lead_context(leads, HumanRef)]_vars

\* The planner call of prepare_plan raised, for the first time in the conversation.
PlanRaised == pc = "prepare_plan" /\ ~context.planner_error /\ context'.planner_error

\* update_context called the planner and the call raised: the turn is not marked
\* as re-planned.
ReplanRaised ==
    pc = "update_context" /\ replan_calls' = replan_calls + 1 /\ ~context'.replanned

\* The segments update_context records from the history before it re-plans.
RecordedByScan ==
    ScanToolMessages(messages, leads,
        [new_lead |-> NoLead, slots |-> slots, ctx |-> context,
         keys |-> ExistingKeys(context.ai_responses)]).ctx.ai_responses

\* C37: when the planner call of prepare_plan raises, pending_actions, intent and
\* slots keep their values on entry, apart from the promotion of a lead_criar
\* that was already queued, and the router runs next; when the planner call of
\* the re-plan raises, pending_actions is as it was on entry and ai_responses
\* is as the scan of the history left it.
C37_PlannerFailureKeepsState ==
    [][/\ PlanRaised =>
             /\ pc' = "router"
             /\ \/ /\ context'.pending_actions = context.pending_actions
                   /\ intent' = intent /\ slots' = slots
                \/ TookQueuedLeadCriar
       /\ ReplanRaised =>
             /\ context'.pending_actions = context.pending_actions
             /\ context'.ai_responses = RecordedByScan
             /\ pc' = "respond_final"]_vars

\* C37 witness: the planner call of the second turn raised while the first turn's
\* lead_criar was queued, and the call of the re-plan raised after the note handler
\* had run.
C37_Witness ==
    /\ turn = 2 /\ pc = "respond_final"
    /\ context.planner_error /\ context.planner_debug # <<>>
    /\ replan_calls = 1 /\ ~context.replanned
    /\ Len(dispatched) >= 1 /\ dispatched[1].intent = "lead_criar"
    /\ LastHumanText(messages) = <<"nota">>

\* The lead reference a slots dict holds (<<>> when it holds none).
Ref(s) == DictGet(s, "lead_ref_ou_id")

\* A handler is about to run an action of a lead-requiring kind while a lead is current.
HandlerEnteredWithLead ==
    /\ pc \in {"handle_notes", "handle_tasks", "leads_agent", "proposals_agent"}
    /\ intent \in INTENTS_REQUIRING_LEAD
    /\ HasLead(lead_atual)

\* The action q is the planner's action p with the reference p names, if p names one.
KeepsPlannedRef(p, q) ==
    /\ EnqueuedAs(p, q)
    /\ (Given(p, "lead_ref_ou_id") \ {<<>>}) # {} => Held(q, "lead_ref_ou_id") = Given(p, "lead_ref_ou_id")

\* The action q comes from the queue on entry or from the plan, reference kept.
FromQueueOrPlan(q, plan) ==
    \/ \E j \in 1..Len(context.pending_actions) : context.pending_actions[j] = q
    \/ \E j \in 1..Len(plan) : KeepsPlannedRef(plan[j], q)

\* What the four injection steps do to a lead reference that is already there.
InjectionKeepsReference ==
    /\ pc = "prepare_plan" =>
          /\ \A i \in 1..Len(context'.pending_actions) :
                FromQueueOrPlan(context'.pending_actions[i], context'.planner_debug)
          /\ slots' # slots => FromQueueOrPlan(Act(intent', slots'), context'.planner_debug)
    /\ pc = "router" =>
          /\ Truthy(Ref(slots)) => slots' = slots
          /\ slots' # slots => slots' = DictPut(slots, "lead_ref_ou_id", Str(lead_atual.lead_id))
    /\ pc = "update_context" =>
          /\ Truthy(Ref(slots)) => Ref(slots') = Ref(slots)
          /\ Len(context'.pending_actions) >= Len(context.pending_actions)
          /\ \A i \in 1..Len(context.pending_actions) :
                Truthy(Ref(context.pending_actions[i].slots)) =>
                    Ref(context'.pending_actions[i].slots) = Ref(context.pending_actions[i].slots)
          /\ \A i \in (Len(context.pending_actions) + 1)..Len(context'.pending_actions) :
                \E j \in 1..Len(replan_plan') :
                    KeepsPlannedRef(replan_plan'[j], context'.pending_actions[i])
    /\ pc = "execute_pending" =>
          LET action == context.pending_actions[1]
          IN  /\ Truthy(Ref(action.slots)) => slots' = action.slots
              /\ slots' # action.slots =>
                    slots' = DictPut(action.slots, "lead_ref_ou_id", Str(lead_atual.lead_id))

\* C38: whenever a handler is entered for a lead-requiring kind while lead_atual
\* holds a lead id, the active slots hold a non-empty lead_ref_ou_id; and
\* prepare_plan, router_node, update_context and execute_pending write a lead
\* reference only where there is none: a non-empty reference of the active
\* slots, of a queued action or of a planned action is kept as it is.
C38_LeadRefPresentAndKept ==
    /\ [](HandlerEnteredWithLead => Truthy(Ref(slots)))
    /\ [][InjectionKeepsReference]_vars

\* C38 witness: a queued note that names lead L1 is made the active action and
\* reaches its handler with that reference, although the lead created earlier in
\* the turn is the current one.
C38_Witness ==
    /\ pc = "handle_notes" /\ intent = "nota_adicionar"
    /\ Len(dispatched) >= 1
    /\ HasLead(lead_atual) /\ lead_atual.lead_id # "L1"
    /\ Ref(slots) = Str("L1")

\* C39: a lead_criar that execute_pending took from the queue (an action after
\* the first one dispatched in the turn) never reaches the lead handler while
\* lead_atual holds a lead.
C39_QueuedLeadCriarOnlyWithoutLead ==
    (pc = "leads_agent" /\ intent = "lead_criar" /\ Len(dispatched) >= 1)
        => ~HasLead(lead_atual)

\* C40: need_lead_resolution is set exactly while resolve_lead is the node that
\* runs next: the router's request always leads to resolve_lead, whatever the
\* intent, and the flag is clear whenever a handler, update_context,
\* execute_pending, respond_final or the router is about to run, and between turns.
C40_FlagOnlyBeforeResolveLead ==
    context.need_lead_resolution <=> pc = "resolve_lead"

\* C40 witness: the router has asked for lead resolution for an action taken
\* from the queue, after an earlier action of the turn was dispatched.
C40_Witness ==
    /\ pc = "resolve_lead" /\ context.need_lead_resolution
    /\ Len(dispatched) >= 1
    /\ intent \in PROPOSAL_INTENTS
====
